---- MODULE Spec2Model ----
(***************************************************************************)
(* Redactly: the rewrite engine (redact / unredact), the live surface      *)
(* binder (EditableFieldHandler), the copy interceptor and the surface     *)
(* discovery monitor (EditModeMonitor).                                    *)
(*                                                                         *)
(* Texts are sequences of one-character strings.  A regular expression is  *)
(* the sequence of atoms the pattern text parses to; the pattern syntax    *)
(* covered is: ordinary characters, "." (any character), "\c" (the         *)
(* character c), "$" (end of input) and "(" without its ")" (a syntax      *)
(* error).                                                                 *)
(***************************************************************************)
EXTENDS Integers, Sequences, FiniteSets, TLC

\* ------------------------------------------------------------------------
\* Bounds
\* ------------------------------------------------------------------------
MaxLen == 3      \* longest text handed to the engine or typed into a surface
MaxRules == 2    \* longest rule array handed to the engine
MaxCalls == 3    \* the per-event counters stop counting here
MaxSelection == 1  \* widest selection the user makes in a surface
MaxBinders == 2    \* binders the monitor creates in one run
MaxStored == 3     \* rules the options page stores
MaxSetups == 2     \* the set-ups of one main input stop counting here

\* ------------------------------------------------------------------------
\* Strings
\* ------------------------------------------------------------------------
Alphabet == {"a", "A", "b"}

RECURSIVE StringsUpTo(_)
StringsUpTo(n) ==
  IF n = 0 THEN {<<>>}
  ELSE LET shorter == StringsUpTo(n - 1)
       IN  shorter \cup {Append(s, c) : s \in {t \in shorter : Len(t) = n - 1}, c \in Alphabet}

Texts == StringsUpTo(MaxLen)

\* The case folding of a RegExp with the i flag (case pairs of the alphabet).
Canonicalize(c) == IF c = "a" THEN "A" ELSE c

\* escapeRegExp: a backslash before each character of [.*+?^${}()|[\]\\]
SpecialChars == {".", "*", "+", "?", "^", "$", "{", "}", "(", ")", "|", "[", "]", "\\"}

RECURSIVE escapeRegExp(_)
escapeRegExp(text) ==
  IF text = <<>> THEN <<>>
  ELSE (IF Head(text) \in SpecialChars THEN <<"\\", Head(text)>> ELSE <<Head(text)>>)
       \o escapeRegExp(Tail(text))

\* new RegExp(source): the atoms of the pattern, or Invalid when the
\* constructor throws a SyntaxError.
Invalid == <<[kind |-> "invalid", ch |-> ""]>>

RECURSIVE ParsePattern(_)
ParsePattern(src) ==
  IF src = <<>> THEN <<>>
  ELSE LET c == Head(src) IN
    IF c = "\\" THEN
      IF Len(src) < 2 THEN Invalid
      ELSE LET rest == ParsePattern(SubSeq(src, 3, Len(src)))
           IN  IF rest = Invalid THEN Invalid
               ELSE <<[kind |-> "char", ch |-> src[2]]>> \o rest
    ELSE IF c = "(" THEN Invalid
    ELSE LET rest == ParsePattern(Tail(src))
             atom == IF c = "." THEN [kind |-> "any", ch |-> ""]
                     ELSE IF c = "$" THEN [kind |-> "eol", ch |-> ""]
                     ELSE [kind |-> "char", ch |-> c]
         IN  IF rest = Invalid THEN Invalid ELSE <<atom>> \o rest

\* Matching atoms[i..] against text at position pos (1-based): the position
\* after the match, or 0 when there is no match at pos.
RECURSIVE MatchFrom(_, _, _, _, _)
MatchFrom(atoms, i, text, pos, ignoreCase) ==
  IF i > Len(atoms) THEN pos
  ELSE LET a == atoms[i] IN
    IF a.kind = "eol" THEN
      IF pos = Len(text) + 1 THEN MatchFrom(atoms, i + 1, text, pos, ignoreCase) ELSE 0
    ELSE IF pos > Len(text) THEN 0
    ELSE IF a.kind = "any" THEN MatchFrom(atoms, i + 1, text, pos + 1, ignoreCase)
    ELSE IF (IF ignoreCase THEN Canonicalize(a.ch) = Canonicalize(text[pos])
                           ELSE a.ch = text[pos])
         THEN MatchFrom(atoms, i + 1, text, pos + 1, ignoreCase)
         ELSE 0

\* GetSubstitution: "$$" is a dollar sign and "$&" the matched text.
RECURSIVE GetSubstitution(_, _)
GetSubstitution(matched, replacement) ==
  IF replacement = <<>> THEN <<>>
  ELSE IF Len(replacement) >= 2 /\ replacement[1] = "$" /\ replacement[2] = "$"
    THEN <<"$">> \o GetSubstitution(matched, SubSeq(replacement, 3, Len(replacement)))
  ELSE IF Len(replacement) >= 2 /\ replacement[1] = "$" /\ replacement[2] = "&"
    THEN matched \o GetSubstitution(matched, SubSeq(replacement, 3, Len(replacement)))
  ELSE <<Head(replacement)>> \o GetSubstitution(matched, Tail(replacement))

\* String.prototype.replace(regex, replacement) from position pos on; a
\* regex with the g flag replaces every match, leftmost first, and steps
\* over an empty match by one character; without g only the first match
\* is replaced.
RECURSIVE ReplaceFrom(_, _, _, _)
ReplaceFrom(text, regex, replacement, pos) ==
  IF pos > Len(text) + 1 THEN <<>>
  ELSE LET e    == MatchFrom(regex.atoms, 1, text, pos, regex.ignoreCase)
           here == IF pos <= Len(text) THEN <<text[pos]>> ELSE <<>>
       IN  IF e = 0 THEN here \o ReplaceFrom(text, regex, replacement, pos + 1)
           ELSE IF ~regex.global
             THEN GetSubstitution(SubSeq(text, pos, e - 1), replacement)
                  \o SubSeq(text, e, Len(text))
           ELSE IF e = pos
             THEN GetSubstitution(<<>>, replacement) \o here
                  \o ReplaceFrom(text, regex, replacement, pos + 1)
           ELSE GetSubstitution(SubSeq(text, pos, e - 1), replacement)
                \o ReplaceFrom(text, regex, replacement, e)

ReplaceFirstOnly(text, regex, replacement) ==
  ReplaceFrom(text, [regex EXCEPT !.global = FALSE], replacement, 1)

Replace(text, regex, replacement) == ReplaceFrom(text, regex, replacement, 1)

\* regex.test(text) for a fresh regex: is there a match anywhere in text
Test(regex, text) ==
  \E pos \in 1..(Len(text) + 1) : MatchFrom(regex.atoms, 1, text, pos, regex.ignoreCase) # 0

\* Array.prototype.sort(compare): a stable sort; compare[a, b] > 0 puts a
\* after b.  compare is a function on the pairs of elements of arr.
ArraySort(arr, compare) ==
  LET RECURSIVE Insert(_, _)
      Insert(sorted, x) ==
        IF sorted = <<>> THEN <<x>>
        ELSE IF compare[Head(sorted), x] > 0 THEN <<x>> \o sorted
        ELSE <<Head(sorted)>> \o Insert(Tail(sorted), x)
      RECURSIVE SortFirst(_)
      SortFirst(n) == IF n = 0 THEN <<>> ELSE Insert(SortFirst(n - 1), arr[n])
  IN  SortFirst(Len(arr))

\* the elements of an array
Elements(arr) == {arr[i] : i \in 1..Len(arr)}

\* ------------------------------------------------------------------------
\* Rewrite engine (redactor.ts)
\* ------------------------------------------------------------------------
Rule(original, placeholder, type, caseSensitive, enabled, priority) ==
  [id |-> 0, original |-> original, placeholder |-> placeholder, type |-> type,
   enabled |-> enabled, caseSensitive |-> caseSensitive, priority |-> priority]

\* new RegExp(source, caseSensitive ? 'g' : 'gi')
RegExp(source, caseSensitive) ==
  [atoms |-> ParsePattern(source), ignoreCase |-> ~caseSensitive, global |-> TRUE]

KindPrioritySwapped(type) == IF type = "exact" THEN 1 ELSE 2

\* the priority compileRule assigns: exact 2, regex 1
KindPriority(type) == IF type = "exact" THEN 2 ELSE 1

compileRuleNoFallback(rule) ==
  [id |-> rule.id, original |-> rule.original, placeholder |-> rule.placeholder,
   type |-> rule.type, enabled |-> rule.enabled, caseSensitive |-> rule.caseSensitive,
   regex |-> IF rule.type = "exact"
               THEN RegExp(escapeRegExp(rule.original), rule.caseSensitive)
               ELSE RegExp(rule.original, rule.caseSensitive),
   priority |-> KindPriority(rule.type)]

compileRule(rule) ==
  LET regex ==
        IF rule.type = "exact" THEN RegExp(escapeRegExp(rule.original), rule.caseSensitive)
        ELSE IF ParsePattern(rule.original) # Invalid
          THEN RegExp(rule.original, rule.caseSensitive)
          ELSE RegExp(escapeRegExp(rule.original), rule.caseSensitive)
  IN  [id |-> rule.id, original |-> rule.original, placeholder |-> rule.placeholder,
       type |-> rule.type, enabled |-> rule.enabled, caseSensitive |-> rule.caseSensitive,
       regex |-> regex, priority |-> KindPriority(rule.type)]

EnabledRulesAll(rules) == rules

\* rules.filter((rule) => rule.enabled)
EnabledRules(rules) == SelectSeq(rules, LAMBDA rule : rule.enabled)

\* redact's compare function: higher compiled priority first
RedactCompare(a, b) == b.priority - a.priority

\* unredact's compare function: lower compiled priority first
UnredactCompare(a, b) == a.priority - b.priority

\* enabledRules.map(compileRule)
CompiledRules(rules) ==
  LET enabledRules == EnabledRules(rules)
  IN  [i \in 1..Len(enabledRules) |-> compileRule(enabledRules[i])]

RedactOrder(rules) ==
  LET compiledRules == CompiledRules(rules)
  IN  ArraySort(compiledRules,
                [a \in Elements(compiledRules), b \in Elements(compiledRules)
                   |-> RedactCompare(a, b)])

UnredactOrder(rules) ==
  LET compiledRules == CompiledRules(rules)
  IN  ArraySort(compiledRules,
                [a \in Elements(compiledRules), b \in Elements(compiledRules)
                   |-> UnredactCompare(a, b)])

WasAppliedIfMatched(rule, before, after) == Test(rule.regex, before)

\* "if (before !== redactedText)": the rule counts as applied
WasApplied(rule, before, after) == before # after

\* The loop of redact over the sorted rules from index i on; steps records,
\* for each rule in turn, the text before and after it ran.
RECURSIVE RedactLoop(_, _, _, _, _)
RedactLoop(compiledRules, i, redactedText, appliedRules, steps) ==
  IF i > Len(compiledRules)
    THEN [text |-> redactedText, appliedRules |-> appliedRules, steps |-> steps]
  ELSE LET rule   == compiledRules[i]
           before == redactedText
           after  == Replace(before, rule.regex, rule.placeholder)
       IN  RedactLoop(compiledRules, i + 1, after,
                      IF WasApplied(rule, before, after)
                        THEN Append(appliedRules, rule.id) ELSE appliedRules,
                      Append(steps, [id |-> rule.id, before |-> before, after |-> after]))

redact(text, rules) ==
  IF text = <<>> \/ Len(rules) = 0
    THEN [text |-> text, appliedRules |-> <<>>, steps |-> <<>>]
  ELSE RedactLoop(RedactOrder(rules), 1, text, <<>>, <<>>)

PlaceholderRegexFromMatch(rule) == rule.regex

\* new RegExp(escapeRegExp(rule.placeholder), 'g')
PlaceholderRegex(rule) ==
  [atoms |-> ParsePattern(escapeRegExp(rule.placeholder)), ignoreCase |-> FALSE,
   global |-> TRUE]

RECURSIVE UnredactLoop(_, _, _, _)
UnredactLoop(compiledRules, i, unredactedText, steps) ==
  IF i > Len(compiledRules) THEN [text |-> unredactedText, steps |-> steps]
  ELSE LET rule  == compiledRules[i]
           after == Replace(unredactedText, PlaceholderRegex(rule), rule.original)
       IN  UnredactLoop(compiledRules, i + 1, after,
                        Append(steps, [id |-> rule.id, before |-> unredactedText,
                                       after |-> after]))

unredactTrace(text, rules) ==
  IF text = <<>> \/ Len(rules) = 0 THEN [text |-> text, steps |-> <<>>]
  ELSE UnredactLoop(UnredactOrder(rules), 1, text, <<>>)

unredact(text, rules) == unredactTrace(text, rules).text

\* ------------------------------------------------------------------------
\* State
\* ------------------------------------------------------------------------
VARIABLES
  engText,    \* the text handed to the engine
  engRules,   \* the rule array handed to the engine
  engOp,      \* the engine calls made so far on engText
  engOut,     \* the result of the last engine call
  engPrev,    \* the result of the engine call before the last one
  \* the content script's rule snapshot and one bound surface
  rules,             \* this.rules of the binder, currentRules of the clipboard
  isEnabled,         \* this.isEnabled
  tagName,           \* element.tagName: "TEXTAREA" (flat) or "DIV" (contenteditable)
  value,             \* the surface's text
  selStart, selEnd,  \* the selection (a caret when equal), as offsets into value
  hasSelection,      \* window.getSelection().rangeCount > 0 (in the surface)
  skipNextInput,     \* this.skipNextInput
  skipNextRedaction, \* this.skipNextRedaction
  pendingInput,      \* the input event dispatched and not yet handled:
                     \* "none", "genuine" (the browser's) or "synthetic" (the binder's)
  elementListeners,  \* the events the binder's listeners are on the element for
  cbListeners,       \* the copy listeners registered on the document
  \* what the last step did (history)
  lastEvent,         \* the last step taken: a handler ("input", "synthetic", "paste",
                     \* "copy"), "rules", or "user" for what the user did to the surface
  userEvent,         \* the user event being handled: "none", "input", "paste"
  inputRan,          \* how far the last handleInput went
  redactCalls,       \* calls of redact while handling the current user event
  effects,           \* what the last handler did to the surface and the event
  copyOut,           \* what the copy listeners did to the last copy event
  \* the page and its EditModeMonitor
  constructed,       \* has the monitor's constructor run
  observing,         \* is this.observer connected
  monConfig,         \* this.config
  monRules,          \* this.rules of the monitor
  monEnabled,        \* this.isEnabled of the monitor
  dom,               \* the page's candidate elements and what the selectors see of them
  activeHandlers,    \* this.activeHandlers: element -> its binder
  fieldListeners,    \* the binders whose input/paste listeners are on each element
  clickListeners,    \* the one-shot click listeners on save and cancel buttons
  removalObservers,  \* the elements a connected removalObserver watches
  nextId,            \* the number the next binder created gets
  destroyCount,      \* calls of destroy() on each binder created
  monLast,           \* what the last step of the monitor did (history)
  \* the options page's rule store
  storedRules,       \* the rules array in chrome.storage.local
  pendingImport,     \* the import waiting in the conflict dialog
  \* the page's main input elements and the content script's set-up of them
  mainInputs,        \* the elements matching SELECTORS.input, in document order
  scriptStage        \* how far setupInputRedaction has got

engVars == <<engText, engRules, engOp, engOut, engPrev>>

surfaceVars == <<value, selStart, selEnd, hasSelection>>

binderVars == <<rules, isEnabled, tagName, value, selStart, selEnd, hasSelection,
                skipNextInput, skipNextRedaction, pendingInput, elementListeners>>

historyVars == <<lastEvent, userEvent, inputRan, redactCalls, effects, copyOut>>

monitorVars == <<constructed, observing, monConfig, monRules, monEnabled, dom,
                 activeHandlers, fieldListeners, clickListeners, removalObservers,
                 nextId, destroyCount, monLast>>

optionsVars == <<storedRules, pendingImport>>

mainInputVars == <<mainInputs, scriptStage>>

vars == <<engText, engRules, engOp, engOut, engPrev,
          rules, isEnabled, tagName, value, selStart, selEnd, hasSelection,
          skipNextInput, skipNextRedaction, pendingInput, elementListeners,
          cbListeners, lastEvent, userEvent, inputRan, redactCalls, effects, copyOut,
          constructed, observing, monConfig, monRules, monEnabled, dom,
          activeHandlers, fieldListeners, clickListeners, removalObservers,
          nextId, destroyCount, monLast,
          storedRules, pendingImport, mainInputs, scriptStage>>

\* ------------------------------------------------------------------------
\* Rule arrays handed to the engine
\* ------------------------------------------------------------------------
RulePool ==
  { Rule(<<"a">>, <<"X">>, "exact", TRUE, TRUE, 0),
    Rule(<<"a">>, <<"X">>, "exact", FALSE, TRUE, 1),
    Rule(<<"a", "b">>, <<"a">>, "exact", TRUE, TRUE, 2),
    Rule(<<"b">>, <<"Y">>, "exact", TRUE, TRUE, 2),
    Rule(<<"b">>, <<>>, "exact", TRUE, TRUE, 0),
    Rule(<<"a">>, <<"a">>, "exact", FALSE, TRUE, 0),
    Rule(<<"b">>, <<"X", "X">>, "exact", TRUE, FALSE, 0),
    Rule(<<".">>, <<"b">>, "regex", TRUE, TRUE, 0),
    Rule(<<"a", ".">>, <<"X">>, "regex", TRUE, TRUE, 1),
    Rule(<<"(", "a">>, <<"X">>, "regex", FALSE, TRUE, 0),
    Rule(<<"$", "&">>, <<"X">>, "exact", TRUE, TRUE, 0) }

\* texts with a character of the pattern syntax in them
SyntaxTexts == { <<"(">>, <<"(", "a">>, <<"(", "A">>, <<"a", "(", "a">>, <<"$", "&">> }

RECURSIVE ArraysUpTo(_)
ArraysUpTo(n) ==
  IF n = 0 THEN {<<>>}
  ELSE LET shorter == ArraysUpTo(n - 1)
       IN  shorter \cup {Append(s, r) : s \in {t \in shorter : Len(t) = n - 1}, r \in RulePool}

\* texts with a replacement of the rule pool in them
RedactedTexts == { <<"X">>, <<"X", "a", "X">> }

\* rule ids are unique: the id of a rule is its position in the array
WithIds(arr) == [i \in 1..Len(arr) |-> [arr[i] EXCEPT !.id = i]]

RuleArrays == {WithIds(arr) : arr \in ArraysUpTo(MaxRules)}

NoResult == [text |-> <<>>, appliedRules |-> <<>>, steps |-> <<>>]

\* ------------------------------------------------------------------------
\* Live surface binder (EditableFieldHandler) and copy interceptor
\* ------------------------------------------------------------------------
Min(a, b) == IF a < b THEN a ELSE b

MaxAsMin(a, b) == IF a < b THEN a ELSE b

Max(a, b) == IF a > b THEN a ELSE b

\* String.prototype.trim
RECURSIVE TrimStart(_)
TrimStart(s) == IF s # <<>> /\ Head(s) = " " THEN TrimStart(Tail(s)) ELSE s

RECURSIVE TrimEnd(_)
TrimEnd(s) == IF s # <<>> /\ s[Len(s)] = " " THEN TrimEnd(SubSeq(s, 1, Len(s) - 1)) ELSE s

Trim(s) == TrimEnd(TrimStart(s))

NoEffects == [wrote |-> FALSE, prevented |-> FALSE, dispatched |-> FALSE]

\* nothing done to a copy event: the default copy stands and neither the
\* text/plain nor the text/html payload is set
NoCopy == [prevented |-> FALSE, plainSet |-> FALSE, plain |-> <<>>,
           htmlSet |-> FALSE, html |-> <<>>]

\* the surface as a handler sees and leaves it
Surface == [value |-> value, selStart |-> selStart, selEnd |-> selEnd,
            hasSelection |-> hasSelection,
            skipNextInput |-> skipNextInput, skipNextRedaction |-> skipNextRedaction,
            ran |-> "none", effects |-> NoEffects]

\* getEditorText: the value of a textarea; the trimmed text of the block of
\* a contenteditable surface
getEditorText(tag, s) == IF tag = "TEXTAREA" THEN s.value ELSE Trim(s.value)

\* updateContent(text): write the text, restore the caret, dispatch 'input'
updateContent(tag, s, text) ==
  IF tag = "TEXTAREA" THEN
    LET cursorPosition == s.selStart
        lengthDiff     == Len(text) - Len(s.value)
        newPosition    == Max(0, Min(cursorPosition + lengthDiff, Len(text)))
    IN  [s EXCEPT !.value = text, !.selStart = newPosition, !.selEnd = newPosition,
                  !.effects = [@ EXCEPT !.wrote = TRUE, !.dispatched = TRUE]]
  ELSE
    LET cursorOffset == IF s.hasSelection THEN s.selEnd ELSE 0
        lengthDiff   == Len(text) - Len(getEditorText(tag, s))
        newOffset    == Max(0, Min(cursorOffset + lengthDiff, Len(text)))
    IN  IF text # <<>>
          THEN [s EXCEPT !.value = text, !.selStart = newOffset, !.selEnd = newOffset,
                         !.hasSelection = TRUE,
                         !.effects = [@ EXCEPT !.wrote = TRUE, !.dispatched = TRUE]]
          \* an empty paragraph has no text node: no new range is set, and the
          \* old one collapses to the start of the emptied surface
          ELSE [s EXCEPT !.value = text, !.selStart = 0, !.selEnd = 0,
                         !.effects = [@ EXCEPT !.wrote = TRUE, !.dispatched = TRUE]]

HandlerOffWhenNoRules(enabled, ruleSnapshot) == Len(ruleSnapshot) = 0

\* "!this.isEnabled || this.rules.length === 0"
HandlerOff(enabled, ruleSnapshot) == ~enabled \/ Len(ruleSnapshot) = 0

\* handleInput
handleInput(tag, ruleSnapshot, enabled, s) ==
  IF s.skipNextInput THEN [s EXCEPT !.skipNextInput = FALSE, !.ran = "skipped"]
  ELSE IF s.skipNextRedaction THEN [s EXCEPT !.skipNextRedaction = FALSE, !.ran = "skipped"]
  ELSE IF HandlerOff(enabled, ruleSnapshot) THEN [s EXCEPT !.ran = "off"]
  ELSE LET result == redact(getEditorText(tag, s), ruleSnapshot)
       IN  IF Len(result.appliedRules) > 0
             THEN updateContent(tag, [s EXCEPT !.ran = "redact"], result.text)
             ELSE [s EXCEPT !.ran = "redact"]

InsertAtStart(currentValue, start, end, text) ==
  SubSeq(currentValue, 1, start) \o text \o SubSeq(currentValue, start + 1, Len(currentValue))

\* currentValue.substring(0, start) + text + currentValue.substring(end)
InsertAt(currentValue, start, end, text) ==
  SubSeq(currentValue, 1, start) \o text \o SubSeq(currentValue, end + 1, Len(currentValue))

\* handlePaste; pastedText is clipboardData.getData('text/plain'), empty when
\* the event carries no clipboard data
handlePaste(tag, ruleSnapshot, enabled, s, pastedText) ==
  IF HandlerOff(enabled, ruleSnapshot) THEN [s EXCEPT !.ran = "off"]
  ELSE IF pastedText = <<>> THEN [s EXCEPT !.ran = "nodata"]
  ELSE LET result == redact(pastedText, ruleSnapshot) IN
    IF Len(result.appliedRules) > 0 THEN
      LET prevented == [s EXCEPT !.ran = "redact", !.effects.prevented = TRUE] IN
      IF tag = "TEXTAREA" THEN
        LET start       == s.selStart
            end         == s.selEnd
            newValue    == InsertAt(s.value, start, end, result.text)
            newPosition == start + Len(result.text)
        IN  [prevented EXCEPT !.value = newValue,
                              !.selStart = newPosition, !.selEnd = newPosition,
                              !.skipNextInput = TRUE, !.skipNextRedaction = TRUE,
                              !.effects = [@ EXCEPT !.wrote = TRUE, !.dispatched = TRUE]]
      ELSE IF s.hasSelection THEN
        LET newValue    == InsertAt(s.value, s.selStart, s.selEnd, result.text)
            newPosition == s.selStart + Len(result.text)
        IN  [prevented EXCEPT !.value = newValue,
                              !.selStart = newPosition, !.selEnd = newPosition,
                              !.skipNextInput = TRUE, !.skipNextRedaction = TRUE,
                              !.effects = [@ EXCEPT !.wrote = TRUE, !.dispatched = TRUE]]
      ELSE prevented
    ELSE [s EXCEPT !.ran = "redact"]

\* createClipboardListener(rules, containerSelector)(e); nodes are the text
\* nodes of the selection, in order
RECURSIVE Concat(_)
Concat(nodes) == IF nodes = <<>> THEN <<>> ELSE Head(nodes) \o Concat(Tail(nodes))

unredactHTML(nodes, ruleSnapshot) ==
  [i \in 1..Len(nodes) |-> IF nodes[i] # <<>> THEN unredact(nodes[i], ruleSnapshot)
                                               ELSE nodes[i]]

ClipboardListenerAnywhere(listener, out, inContainer, hasRange, nodes, hasClipboardData, htmlThrows) ==
  IF ~hasRange THEN out
  ELSE LET selectedText   == Concat(nodes)
           unredactedText == unredact(selectedText, listener.rules)
       IN  IF selectedText = <<>> THEN out
           ELSE IF unredactedText # selectedText /\ hasClipboardData
             THEN IF htmlThrows \/ nodes = <<>>
                    THEN [out EXCEPT !.prevented = TRUE, !.plainSet = TRUE,
                                     !.plain = unredactedText]
                    ELSE [prevented |-> TRUE, plainSet |-> TRUE, plain |-> unredactedText,
                          htmlSet |-> TRUE, html |-> unredactHTML(nodes, listener.rules)]
             ELSE out

ClipboardListenerUncaught(listener, out, inContainer, hasRange, nodes, hasClipboardData, htmlThrows) ==
  IF listener.containerSelector # "" /\ ~inContainer THEN out
  ELSE IF ~hasRange THEN out
  ELSE LET selectedText   == Concat(nodes)
           unredactedText == unredact(selectedText, listener.rules)
       IN  IF selectedText = <<>> THEN out
           ELSE IF unredactedText # selectedText /\ hasClipboardData
             THEN IF htmlThrows \/ nodes = <<>>
                    THEN out
                    ELSE [prevented |-> TRUE, plainSet |-> TRUE, plain |-> unredactedText,
                          htmlSet |-> TRUE, html |-> unredactHTML(nodes, listener.rules)]
             ELSE out

clipboardListener(listener, out, inContainer, hasRange, nodes, hasClipboardData, htmlThrows) ==
  IF listener.containerSelector # "" /\ ~inContainer THEN out
  ELSE IF ~hasRange THEN out
  ELSE LET selectedText   == Concat(nodes)
           unredactedText == unredact(selectedText, listener.rules)
       IN  IF selectedText = <<>> THEN out
           ELSE IF unredactedText # selectedText /\ hasClipboardData
             THEN IF htmlThrows \/ nodes = <<>>
                    THEN [out EXCEPT !.prevented = TRUE, !.plainSet = TRUE,
                                     !.plain = unredactedText]
                    ELSE [prevented |-> TRUE, plainSet |-> TRUE, plain |-> unredactedText,
                          htmlSet |-> TRUE, html |-> unredactHTML(nodes, listener.rules)]
             ELSE out

RECURSIVE DispatchCopy(_, _, _, _, _, _, _, _)
DispatchCopy(listeners, i, out, inContainer, hasRange, nodes, hasClipboardData, htmlThrows) ==
  IF i > Len(listeners) THEN out
  ELSE DispatchCopy(listeners, i + 1,
                    clipboardListener(listeners[i], out, inContainer, hasRange, nodes,
                                      hasClipboardData, htmlThrows),
                    inContainer, hasRange, nodes, hasClipboardData, htmlThrows)

\* ------------------------------------------------------------------------
\* EditModeMonitor: the page's candidate elements and their binders
\* ------------------------------------------------------------------------
\* the candidate elements of the page, in document order
Elems == {1, 2}

\* an optional selector the configuration leaves out
Undefined == "undefined"

\* An element as the monitor's selectors see it: is it in the page, does it
\* match editFieldSelector, its tag, its contenteditable attribute ("absent",
\* "true" or "false"), does closest(messageSelector) find a container, and
\* are a save and a cancel button rendered next to it (in that container
\* when it has one).
Element(attached, matches, tag, contenteditable, inMessage, buttons) ==
  [attached |-> attached, matches |-> matches, tagName |-> tag,
   contenteditable |-> contenteditable, inMessage |-> inMessage, buttons |-> buttons]

\* EditModeConfig
EditModeConfig(messageSelector, saveButtonSelector, cancelButtonSelector) ==
  [messageSelector |-> messageSelector, editFieldSelector |-> "textarea.edit",
   saveButtonSelector |-> saveButtonSelector,
   cancelButtonSelector |-> cancelButtonSelector]

\* new EditableFieldHandler({element}, rules, isEnabled): the n-th binder
\* created, with its guard flags off
EditableFieldHandler(n, ruleSnapshot, enabled) ==
  [id |-> n, rules |-> ruleSnapshot, isEnabled |-> enabled,
   skipNextInput |-> FALSE, skipNextRedaction |-> FALSE]

\* the monitor and the page as a handler of the monitor sees and leaves them
Monitor ==
  [config |-> monConfig, rules |-> monRules, isEnabled |-> monEnabled,
   dom |-> dom, activeHandlers |-> activeHandlers,
   fieldListeners |-> fieldListeners, clickListeners |-> clickListeners,
   removalObservers |-> removalObservers, nextId |-> nextId,
   destroyCount |-> destroyCount]

\* isEditField(element)
isEditField(cfg, el) ==
  IF ~el.matches THEN FALSE
  ELSE IF el.tagName # "TEXTAREA" /\ el.contenteditable = "absent" THEN FALSE
  ELSE IF cfg.messageSelector = "body" THEN TRUE
  ELSE el.inMessage

\* messageContainer.querySelector(selector) for the save or the cancel button
\* of the container of element e: the element whose button is found, 0 if
\* none.  The container 'body' holds the buttons of every element, and
\* querySelector returns the first in document order.
QueryButton(m, e) ==
  IF m.config.messageSelector = "body"
    THEN LET present == {x \in Elems : m.dom[x].buttons}
         IN  IF present = {} THEN 0 ELSE CHOOSE x \in present : \A y \in present : x <= y
    ELSE IF m.dom[e].buttons THEN e ELSE 0

\* the listener watchForEditCompletion puts on a button found
ClickListener(button, kind, e) == [button |-> button, kind |-> kind, field |-> e]

\* watchForEditCompletion(editField)
watchForEditCompletion(m, e) ==
  IF m.config.messageSelector # "body" /\ ~m.dom[e].inMessage THEN m
  ELSE LET button == QueryButton(m, e)
           save   == IF m.config.saveButtonSelector # Undefined /\ button # 0
                       THEN {ClickListener(button, "save", e)} ELSE {}
           cancel == IF m.config.cancelButtonSelector # Undefined /\ button # 0
                       THEN {ClickListener(button, "cancel", e)} ELSE {}
       IN  [m EXCEPT !.clickListeners = @ \cup save \cup cancel,
                     !.removalObservers = @ \cup {e}]

HandleEditFieldActivatedAgain(m, e) ==
  watchForEditCompletion(
    [m EXCEPT !.activeHandlers = (e :> EditableFieldHandler(m.nextId, m.rules, m.isEnabled)) @@ @,
              !.fieldListeners[e] = @ \cup {m.nextId},
              !.nextId = @ + 1], e)

\* handleEditFieldActivated(element): the binder's constructor puts its
\* input and paste listeners on the element
handleEditFieldActivated(m, e) ==
  IF e \in DOMAIN m.activeHandlers THEN m
  ELSE watchForEditCompletion(
         [m EXCEPT !.activeHandlers = (e :> EditableFieldHandler(m.nextId, m.rules, m.isEnabled)) @@ @,
                   !.fieldListeners[e] = @ \cup {m.nextId},
                   !.nextId = @ + 1], e)

\* handler.destroy() of the binder on element e: removeEventListener of
\* its input and paste listeners
destroyHandler(m, e, handler) ==
  [m EXCEPT !.fieldListeners[e] = @ \ {handler.id},
            !.destroyCount[handler.id] = @ + 1]

\* handleEditComplete(element)
handleEditComplete(m, e) ==
  IF e \in DOMAIN m.activeHandlers
    THEN [destroyHandler(m, e, m.activeHandlers[e])
            EXCEPT !.activeHandlers = IF DOMAIN @ \ {e} = {} THEN <<>>
                                      ELSE [x \in DOMAIN @ \ {e} |-> @[x]]]
    ELSE m

\* this.activeHandlers.forEach((handler) => handler.destroy())
RECURSIVE DestroyEach(_, _)
DestroyEach(m, pending) ==
  IF pending = {} THEN m
  ELSE LET e == CHOOSE x \in pending : \A y \in pending : x <= y
       IN  DestroyEach(destroyHandler(m, e, m.activeHandlers[e]), pending \ {e})

DestroyKeepsActiveSet(m) == DestroyEach(m, DOMAIN m.activeHandlers)

\* destroy() of the monitor, but for this.observer.disconnect()
destroy(m) ==
  [DestroyEach(m, DOMAIN m.activeHandlers) EXCEPT !.activeHandlers = <<>>]

\* checkForEditFields on an inserted element; the attribute branch of the
\* observer's callback does the same with the element changed
checkForEditFields(m, e) ==
  IF isEditField(m.config, m.dom[e]) THEN handleEditFieldActivated(m, e) ELSE m

\* scanExistingEditFields: the elements of the page from e on, in document order
RECURSIVE scanExistingEditFields(_, _)
scanExistingEditFields(m, e) ==
  IF e \notin Elems THEN m
  ELSE scanExistingEditFields(
         IF m.dom[e].attached THEN checkForEditFields(m, e) ELSE m, e + 1)

\* the listeners a click runs, one after the other
RECURSIVE RunCleanups(_, _)
RunCleanups(m, pending) ==
  IF pending = {} THEN m
  ELSE LET e == CHOOSE x \in pending : \A y \in pending : x <= y
       IN  RunCleanups(handleEditComplete(m, e), pending \ {e})

\* updateRules(newRules) of the monitor, and of each active binder
updateRules(m, newRules) ==
  [m EXCEPT !.rules = newRules,
            !.activeHandlers = [x \in DOMAIN @ |-> [@[x] EXCEPT !.rules = newRules]]]

\* handleInput on an input event and then on each input event the binder
\* dispatches from updateContent, which runs the listener before it returns
RECURSIVE InputChain(_, _, _, _, _)
InputChain(tag, ruleSnapshot, enabled, s, fuel) ==
  LET t == handleInput(tag, ruleSnapshot, enabled, s)
  IN  IF t.effects.dispatched /\ fuel > 1
        THEN InputChain(tag, ruleSnapshot, enabled,
                        [t EXCEPT !.ran = "none", !.effects = NoEffects], fuel - 1)
        ELSE t

\* no step of the monitor yet
NoStep == [op |-> "none", field |-> 0, bound |-> FALSE, ran |-> "none", out |-> <<>>]

\* a step on element e (0: on none): was e bound before it, how far the
\* binder's handler of the user's event went, and the text it left in e
Step(op, e, ran, out) ==
  [op |-> op, field |-> e, bound |-> e \in DOMAIN activeHandlers, ran |-> ran, out |-> out]

\* no import waiting in the conflict dialog
NoPending == [open |-> FALSE, file |-> <<>>, conflictingRules |-> <<>>, importedCount |-> 0]

\* the specifications without an options page
NoStore == storedRules = <<>> /\ pendingImport = NoPending

\* the specifications without a main input element
NoMainInput == mainInputs = <<>> /\ scriptStage = "none"

\* the specifications without a monitor: an empty page
NoMonitor ==
  /\ constructed = FALSE
  /\ observing = FALSE
  /\ monConfig = EditModeConfig("body", Undefined, Undefined)
  /\ monRules = <<>> /\ monEnabled = FALSE
  /\ dom = [e \in Elems |-> Element(FALSE, FALSE, "DIV", "absent", FALSE, FALSE)]
  /\ activeHandlers = <<>>
  /\ fieldListeners = [e \in Elems |-> {}]
  /\ clickListeners = {}
  /\ removalObservers = {}
  /\ nextId = 1
  /\ destroyCount = [n \in 1..MaxBinders |-> 0]
  /\ monLast = NoStep

\* setupListeners(): the events the binder's handlers are registered for
setupListeners == {"input", "paste"}

RemoveInputListenerOnly(listeners) == listeners \ {"input"}

\* destroy() of the binder: removeEventListener for 'input' and for 'paste'
destroyListeners(listeners) == (listeners \ {"input"}) \ {"paste"}

\* the surface of the engine-only specification: nothing bound
NoSurface ==
  /\ rules = <<>> /\ isEnabled = FALSE /\ tagName = "TEXTAREA"
  /\ value = <<>> /\ selStart = 0 /\ selEnd = 0 /\ hasSelection = FALSE
  /\ skipNextInput = FALSE /\ skipNextRedaction = FALSE /\ pendingInput = "none"
  /\ elementListeners = {}
  /\ cbListeners = <<>>
  /\ lastEvent = "none" /\ userEvent = "none" /\ inputRan = "none"
  /\ redactCalls = 0 /\ effects = NoEffects /\ copyOut = NoCopy

\* ------------------------------------------------------------------------
\* The engine called on its own
\* ------------------------------------------------------------------------
InitEngine ==
  /\ engText \in Texts \cup SyntaxTexts \cup RedactedTexts
  /\ engRules \in RuleArrays
  /\ engOp = "none"
  /\ engOut = NoResult
  /\ engPrev = NoResult
  /\ NoSurface
  /\ NoMonitor
  /\ NoStore
  /\ NoMainInput

\* redact(engText, engRules)
Redact ==
  /\ engOp = "none"
  /\ engOut' = redact(engText, engRules)
  /\ engPrev' = engOut
  /\ engOp' = "redact"
  /\ UNCHANGED <<engText, engRules, binderVars, cbListeners, historyVars>>
  /\ UNCHANGED <<monitorVars, optionsVars, mainInputVars>>

\* unredact(engText, engRules)
Unredact ==
  /\ engOp = "none"
  /\ engOut' = unredactTrace(engText, engRules) @@ [appliedRules |-> <<>>]
  /\ engPrev' = engOut
  /\ engOp' = "unredact"
  /\ UNCHANGED <<engText, engRules, binderVars, cbListeners, historyVars>>
  /\ UNCHANGED <<monitorVars, optionsVars, mainInputVars>>

\* redact(redact(engText, engRules).text, engRules)
RedactAgain ==
  /\ engOp = "redact"
  /\ engOut' = redact(engOut.text, engRules)
  /\ engPrev' = engOut
  /\ engOp' = "redact-redact"
  /\ UNCHANGED <<engText, engRules, binderVars, cbListeners, historyVars>>
  /\ UNCHANGED <<monitorVars, optionsVars, mainInputVars>>

\* unredact(redact(engText, engRules).text, engRules)
Restore ==
  /\ engOp = "redact"
  /\ engOut' = unredactTrace(engOut.text, engRules) @@ [appliedRules |-> <<>>]
  /\ engPrev' = engOut
  /\ engOp' = "redact-unredact"
  /\ UNCHANGED <<engText, engRules, binderVars, cbListeners, historyVars>>
  /\ UNCHANGED <<monitorVars, optionsVars, mainInputVars>>

NextEngine == Redact \/ Unredact \/ RedactAgain \/ Restore

SpecEngine == InitEngine /\ [][NextEngine]_vars

\* ------------------------------------------------------------------------
\* One bound surface and the copy interceptor in the content script
\* ------------------------------------------------------------------------
TypedChars == {"a", "b"}

PastePayloads == {<<>>, <<"a">>, <<"b", "a">>}

InitialValues == {<<>>, <<"a", "b">>}

\* copy events: is the target inside the container, is there a selection
\* range, the text nodes of the selection, does the event carry clipboard
\* data, does building the HTML payload throw
CopyEvent(inContainer, hasRange, nodes, hasClipboardData, htmlThrows) ==
  [inContainer |-> inContainer, hasRange |-> hasRange, nodes |-> nodes,
   hasClipboardData |-> hasClipboardData, htmlThrows |-> htmlThrows]

CopyEvents ==
  { CopyEvent(TRUE, TRUE, <<<<"X">>>>, TRUE, FALSE),
    CopyEvent(TRUE, TRUE, <<<<"X">>>>, TRUE, TRUE),
    CopyEvent(TRUE, TRUE, <<<<"a">>, <<"X">>>>, TRUE, FALSE),
    CopyEvent(TRUE, TRUE, <<<<"a">>>>, TRUE, FALSE),
    CopyEvent(TRUE, TRUE, <<>>, TRUE, FALSE),
    CopyEvent(TRUE, FALSE, <<>>, TRUE, FALSE),
    CopyEvent(TRUE, TRUE, <<<<"X">>>>, FALSE, FALSE),
    CopyEvent(FALSE, TRUE, <<<<"X">>>>, TRUE, FALSE) }

\* SELECTORS.responseContainer
ContainerSelector == "main"

BinderRuleSets ==
  { <<>>,
    WithIds(<<Rule(<<"a">>, <<"X">>, "exact", TRUE, TRUE, 0)>>),
    WithIds(<<Rule(<<"a">>, <<"a", "b">>, "exact", TRUE, TRUE, 0),
              Rule(<<"a", "b">>, <<"a">>, "exact", TRUE, TRUE, 1)>>),
    WithIds(<<Rule(<<"a", "b">>, <<>>, "exact", TRUE, TRUE, 0)>>),
    WithIds(<<Rule(<<"b">>, <<"X", "X">>, "exact", TRUE, TRUE, 0)>>) }

Init ==
  /\ engText = <<>> /\ engRules = <<>> /\ engOp = "none"
  /\ engOut = NoResult /\ engPrev = NoResult
  /\ rules \in BinderRuleSets
  /\ isEnabled \in BOOLEAN
  /\ tagName \in {"TEXTAREA", "DIV"}
  /\ value \in InitialValues
  /\ selStart = 0 /\ selEnd = 0
  /\ hasSelection = (tagName = "TEXTAREA")
  /\ skipNextInput = FALSE /\ skipNextRedaction = FALSE
  /\ pendingInput = "none"
  /\ elementListeners = setupListeners
  \* setupClipboard(rules, SELECTORS.responseContainer)
  /\ cbListeners = <<[rules |-> rules, containerSelector |-> ContainerSelector]>>
  /\ lastEvent = "none" /\ userEvent = "none" /\ inputRan = "none"
  /\ redactCalls = 0 /\ effects = NoEffects /\ copyOut = NoCopy
  /\ NoMonitor
  /\ NoStore
  /\ NoMainInput

\* the surface variables take what a handler left
Leave(s) ==
  /\ value' = s.value
  /\ selStart' = s.selStart
  /\ selEnd' = s.selEnd
  /\ hasSelection' = s.hasSelection
  /\ skipNextInput' = s.skipNextInput
  /\ skipNextRedaction' = s.skipNextRedaction
  /\ inputRan' = s.ran
  /\ effects' = s.effects

CountRedact(n, s) == IF s.ran = "redact" THEN Min(n + 1, MaxCalls) ELSE n

\* The browser's own edit of the surface: the user types c over the
\* selection; the browser then fires a genuine input event.
UserType(c) ==
  /\ pendingInput = "none"
  /\ hasSelection
  /\ Len(value) - (selEnd - selStart) < MaxLen
  /\ value' = SubSeq(value, 1, selStart) \o <<c>> \o SubSeq(value, selEnd + 1, Len(value))
  /\ selStart' = selStart + 1
  /\ selEnd' = selStart + 1
  /\ pendingInput' = "genuine"
  /\ lastEvent' = "user"
  /\ userEvent' = "none" /\ inputRan' = "none" /\ redactCalls' = 0
  /\ effects' = NoEffects /\ copyOut' = NoCopy
  /\ UNCHANGED <<engVars, rules, isEnabled, tagName, hasSelection,
                 skipNextInput, skipNextRedaction, cbListeners>>
  /\ UNCHANGED elementListeners
  /\ UNCHANGED <<monitorVars, optionsVars, mainInputVars>>

\* The user deletes the selection, or the character before the caret.
UserDelete ==
  /\ pendingInput = "none"
  /\ hasSelection
  /\ selEnd > 0
  /\ LET from == IF selStart < selEnd THEN selStart ELSE selStart - 1
     IN  /\ value' = SubSeq(value, 1, from) \o SubSeq(value, selEnd + 1, Len(value))
         /\ selStart' = from
         /\ selEnd' = from
  /\ pendingInput' = "genuine"
  /\ lastEvent' = "user"
  /\ userEvent' = "none" /\ inputRan' = "none" /\ redactCalls' = 0
  /\ effects' = NoEffects /\ copyOut' = NoCopy
  /\ UNCHANGED <<engVars, rules, isEnabled, tagName, hasSelection,
                 skipNextInput, skipNextRedaction, cbListeners>>
  /\ UNCHANGED elementListeners
  /\ UNCHANGED <<monitorVars, optionsVars, mainInputVars>>

\* handleInput on the input event the browser fired for a user edit
GenuineInput ==
  /\ pendingInput = "genuine"
  /\ LET s == handleInput(tagName, rules, isEnabled, Surface)
     IN  /\ Leave(s)
         /\ pendingInput' = IF s.effects.dispatched THEN "synthetic" ELSE "none"
         /\ redactCalls' = CountRedact(0, s)
  /\ lastEvent' = "input"
  /\ userEvent' = "input"
  /\ copyOut' = NoCopy
  /\ UNCHANGED <<engVars, rules, isEnabled, tagName, cbListeners>>
  /\ UNCHANGED elementListeners
  /\ UNCHANGED <<monitorVars, optionsVars, mainInputVars>>

\* handleInput on the input event the binder dispatched itself
\* (dispatchEvent runs the listeners before it returns)
SyntheticInput ==
  /\ pendingInput = "synthetic"
  /\ LET s == handleInput(tagName, rules, isEnabled, Surface)
     IN  /\ Leave(s)
         /\ pendingInput' = IF s.effects.dispatched THEN "synthetic" ELSE "none"
         /\ redactCalls' = CountRedact(redactCalls, s)
  /\ lastEvent' = "synthetic"
  /\ copyOut' = NoCopy
  /\ UNCHANGED <<engVars, rules, isEnabled, tagName, cbListeners, userEvent>>
  /\ UNCHANGED elementListeners
  /\ UNCHANGED <<monitorVars, optionsVars, mainInputVars>>

\* handlePaste on a paste of pastedText; unless the handler prevented it the
\* browser then inserts the text over the selection and fires a genuine
\* input event.
UserPaste(pastedText) ==
  /\ pendingInput = "none"
  /\ Len(value) - (selEnd - selStart) + Len(pastedText) <= MaxLen
  /\ LET s == handlePaste(tagName, rules, isEnabled, Surface, pastedText)
         position == selStart + Len(pastedText)
     IN  /\ IF s.effects.prevented \/ pastedText = <<>> \/ ~hasSelection
              THEN /\ Leave(s)
                   /\ pendingInput' = IF s.effects.dispatched THEN "synthetic" ELSE "none"
              ELSE /\ Leave([s EXCEPT !.value = SubSeq(value, 1, selStart) \o pastedText
                                                 \o SubSeq(value, selEnd + 1, Len(value)),
                                      !.selStart = position, !.selEnd = position])
                   /\ pendingInput' = "genuine"
         /\ redactCalls' = CountRedact(0, s)
  /\ lastEvent' = "paste"
  /\ userEvent' = "paste"
  /\ copyOut' = NoCopy
  /\ UNCHANGED <<engVars, rules, isEnabled, tagName, cbListeners>>
  /\ UNCHANGED elementListeners
  /\ UNCHANGED <<monitorVars, optionsVars, mainInputVars>>

\* The user puts the caret, or a selection, into the surface.
MoveCaret(from, to) ==
  /\ pendingInput = "none"
  /\ from <= to /\ to <= Len(value) /\ to - from <= MaxSelection
  /\ ~hasSelection \/ <<from, to>> # <<selStart, selEnd>>
  /\ selStart' = from /\ selEnd' = to /\ hasSelection' = TRUE
  /\ lastEvent' = "user"
  /\ userEvent' = "none" /\ inputRan' = "none" /\ redactCalls' = 0
  /\ effects' = NoEffects /\ copyOut' = NoCopy
  /\ UNCHANGED <<engVars, rules, isEnabled, tagName, value,
                 skipNextInput, skipNextRedaction, pendingInput, cbListeners>>
  /\ UNCHANGED elementListeners
  /\ UNCHANGED <<monitorVars, optionsVars, mainInputVars>>

\* The selection leaves the contenteditable surface.
Blur ==
  /\ pendingInput = "none"
  /\ tagName = "DIV" /\ hasSelection
  /\ selStart' = 0 /\ selEnd' = 0 /\ hasSelection' = FALSE
  /\ lastEvent' = "user"
  /\ userEvent' = "none" /\ inputRan' = "none" /\ redactCalls' = 0
  /\ effects' = NoEffects /\ copyOut' = NoCopy
  /\ UNCHANGED <<engVars, rules, isEnabled, tagName, value,
                 skipNextInput, skipNextRedaction, pendingInput, cbListeners>>
  /\ UNCHANGED elementListeners
  /\ UNCHANGED <<monitorVars, optionsVars, mainInputVars>>

\* currentContainerSelector: the selector of the listener created last, none
\* before setupClipboard
currentContainerSelector(listeners) ==
  IF listeners # <<>> THEN listeners[Len(listeners)].containerSelector ELSE ""

UpdateClipboardRulesKeepsOld(listeners, newRules) ==
  listeners \o <<[rules |-> newRules,
                  containerSelector |-> currentContainerSelector(listeners)]>>

\* updateClipboardRules(newRules): remove the listener created last, add one
\* for the same container
updateClipboardRules(listeners, newRules) ==
  (IF listeners # <<>> THEN SubSeq(listeners, 1, Len(listeners) - 1) ELSE listeners)
  \o <<[rules |-> newRules, containerSelector |-> currentContainerSelector(listeners)]>>

\* The onRulesChanged callback of the content script:
\* updateClipboardRules(newRules) and updateRules(newRules) of the binder.
OnRulesChanged(newRules) ==
  /\ pendingInput = "none"
  /\ newRules # rules
  /\ rules' = newRules
  /\ cbListeners' = updateClipboardRules(cbListeners, newRules)
  /\ lastEvent' = "rules"
  /\ userEvent' = "none" /\ inputRan' = "none" /\ redactCalls' = 0
  /\ effects' = NoEffects /\ copyOut' = NoCopy
  /\ UNCHANGED <<engVars, isEnabled, tagName, surfaceVars,
                 skipNextInput, skipNextRedaction, pendingInput>>
  /\ UNCHANGED elementListeners
  /\ UNCHANGED <<monitorVars, optionsVars, mainInputVars>>

\* A copy event reaches the document's copy listeners.  The listeners read
\* nothing of the bound surface: copies are taken at the start and after a
\* change of the rules, whatever the surface holds then.
Copy(e) ==
  /\ pendingInput = "none"
  /\ lastEvent \in {"none", "rules", "copy"}
  /\ copyOut' = DispatchCopy(cbListeners, 1, NoCopy, e.inContainer, e.hasRange, e.nodes,
                             e.hasClipboardData, e.htmlThrows)
  /\ lastEvent' = "copy"
  /\ userEvent' = "none" /\ inputRan' = "none" /\ redactCalls' = 0
  /\ effects' = NoEffects
  /\ UNCHANGED <<engVars, binderVars, cbListeners>>
  /\ UNCHANGED <<monitorVars, optionsVars, mainInputVars>>

Next ==
  \/ \E c \in TypedChars : UserType(c)
  \/ UserDelete
  \/ GenuineInput
  \/ SyntheticInput
  \/ \E pastedText \in PastePayloads : UserPaste(pastedText)
  \/ \E from, to \in 0..(2 * MaxLen) : MoveCaret(from, to)
  \/ Blur
  \/ \E newRules \in BinderRuleSets : OnRulesChanged(newRules)
  \/ \E e \in CopyEvents : Copy(e)

Spec == Init /\ [][Next]_vars

\* ------------------------------------------------------------------------
\* The copy interceptor on its own
\* ------------------------------------------------------------------------
ClipboardRuleSets ==
  BinderRuleSets \cup
  { WithIds(<<Rule(<<"a">>, <<"X">>, "exact", TRUE, TRUE, 0),
              Rule(<<"b">>, <<"a">>, "exact", TRUE, TRUE, 1)>>),
    WithIds(<<Rule(<<"$", "&">>, <<"X">>, "exact", TRUE, TRUE, 0)>>),
    WithIds(<<Rule(<<"b">>, <<"X">>, "exact", TRUE, TRUE, 0),
              Rule(<<"a">>, <<"b">>, "exact", TRUE, TRUE, 1)>>) }

\* the text nodes of a selection
SelectedNodes ==
  { <<>>, <<<<"X">>>>, <<<<"a">>>>, <<<<"a">>, <<"X">>>>, <<<<"X", "X">>>>,
    <<<<"X">>, <<"X">>>>, <<<<"a", "b">>>> }

\* a selection without a range has no text
ClipboardEvents ==
  { CopyEvent(c, r, n, d, h) : c, r, d, h \in BOOLEAN, n \in SelectedNodes } \
  { CopyEvent(c, FALSE, n, d, h) : c, d, h \in BOOLEAN, n \in SelectedNodes \ {<<>>} }

\* setupClipboard(rules, containerSelector)
setupClipboard(listeners, ruleSnapshot, containerSelector) ==
  listeners \o <<[rules |-> ruleSnapshot, containerSelector |-> containerSelector]>>

\* The content script has called setupClipboard with its rules, for the
\* response container or for the whole document; no surface is bound.
InitClipboard ==
  /\ engText = <<>> /\ engRules = <<>> /\ engOp = "none"
  /\ engOut = NoResult /\ engPrev = NoResult
  /\ rules \in ClipboardRuleSets
  /\ isEnabled = TRUE /\ tagName = "TEXTAREA"
  /\ value = <<>> /\ selStart = 0 /\ selEnd = 0 /\ hasSelection = FALSE
  /\ skipNextInput = FALSE /\ skipNextRedaction = FALSE /\ pendingInput = "none"
  /\ elementListeners = {}
  /\ \E containerSelector \in {ContainerSelector, ""} :
       cbListeners = setupClipboard(<<>>, rules, containerSelector)
  /\ lastEvent = "none" /\ userEvent = "none" /\ inputRan = "none"
  /\ redactCalls = 0 /\ effects = NoEffects /\ copyOut = NoCopy
  /\ NoMonitor
  /\ NoStore
  /\ NoMainInput

NextClipboard ==
  \/ \E newRules \in ClipboardRuleSets : OnRulesChanged(newRules)
  \/ \E e \in ClipboardEvents : Copy(e)

SpecClipboard == InitClipboard /\ [][NextClipboard]_vars

\* ------------------------------------------------------------------------
\* The options page's rule store (useRules, RuleList, RuleImportExport)
\* ------------------------------------------------------------------------
\* the ids of the rules in an array
Ids(arr) == {arr[i].id : i \in 1..Len(arr)}

\* uuidv4(): an id that no rule of the array has
NewId(arr) == CHOOSE n \in 1..(Len(arr) + 1) : n \notin Ids(arr) /\ \A k \in 1..(n - 1) : k \in Ids(arr)

\* rules.filter((r) => r.type === type)
OfType(arr, type) == SelectSeq(arr, LAMBDA r : r.type = type)

\* .sort((a, b) => a.priority - b.priority)
SortByPriority(arr) ==
  ArraySort(arr, [a \in Elements(arr), b \in Elements(arr) |-> a.priority - b.priority])

\* .map((r, i) => ({ ...r, priority: i }))
Reindex(arr) == [i \in 1..Len(arr) |-> [arr[i] EXCEPT !.priority = i - 1]]

\* newRules with fresh ids, appended one after the other
RECURSIVE AppendNew(_, _)
AppendNew(arr, newRules) ==
  IF newRules = <<>> THEN arr
  ELSE AppendNew(Append(arr, [Head(newRules) EXCEPT !.id = NewId(arr)]), Tail(newRules))

\* addRule(ruleData)
addRule(stored, ruleData) ==
  LET sameTypeRules == OfType(stored, ruleData.type)
      priority      == Len(sameTypeRules)
  IN  AppendNew(stored, <<[ruleData EXCEPT !.priority = priority]>>)

\* deleteRule(id)
deleteRule(stored, id) == SelectSeq(stored, LAMBDA r : r.id # id)

\* toggleRule(id)
toggleRule(stored, id) ==
  [i \in 1..Len(stored) |-> IF stored[i].id = id THEN [stored[i] EXCEPT !.enabled = ~@]
                                                 ELSE stored[i]]

\* RuleList.handleDrop(e, targetRuleId) with draggedItem, outside select
\* mode; onReorder is reorderRules, which stores the array it is given
handleDrop(stored, draggedItem, targetRuleId) ==
  IF draggedItem = targetRuleId THEN stored
  ELSE IF draggedItem \notin Ids(stored) \/ targetRuleId \notin Ids(stored) THEN stored
  ELSE LET draggedRule == stored[CHOOSE i \in 1..Len(stored) : stored[i].id = draggedItem]
           targetRule  == stored[CHOOSE i \in 1..Len(stored) : stored[i].id = targetRuleId]
       IN  IF draggedRule.type # targetRule.type THEN stored
           ELSE LET sameTypeRules == OfType(stored, draggedRule.type)
                    draggedIndex  == CHOOSE i \in 1..Len(sameTypeRules) :
                                       sameTypeRules[i].id = draggedItem
                    targetIndex   == CHOOSE i \in 1..Len(sameTypeRules) :
                                       sameTypeRules[i].id = targetRuleId
                    removed       == SubSeq(sameTypeRules, 1, draggedIndex - 1)
                                     \o SubSeq(sameTypeRules, draggedIndex + 1, Len(sameTypeRules))
                    reordered     == SubSeq(removed, 1, targetIndex - 1) \o <<draggedRule>>
                                     \o SubSeq(removed, targetIndex, Len(removed))
                    updatedReordered == Reindex(reordered)
                    otherTypeRules   == SelectSeq(stored, LAMBDA r : r.type # draggedRule.type)
                IN  IF draggedRule.type = "exact"
                      THEN updatedReordered \o otherTypeRules
                      ELSE otherTypeRules \o updatedReordered

\* bulkDeleteRules(ids)
bulkDeleteRules(stored, ids) ==
  LET updatedRules == SelectSeq(stored, LAMBDA r : r.id \notin ids)
      exactRules   == Reindex(SortByPriority(OfType(updatedRules, "exact")))
      regexRules   == Reindex(SortByPriority(OfType(updatedRules, "regex")))
  IN  exactRules \o regexRules

\* Math.max(...arr.map((r) => r.priority)) of a non-empty array
MaxPriority(arr) ==
  CHOOSE p \in {arr[i].priority : i \in 1..Len(arr)} :
    \A i \in 1..Len(arr) : arr[i].priority <= p

\* bulkUpdateType(ids, newType)
bulkUpdateType(stored, ids, newType) ==
  LET unchangedRules      == SelectSeq(stored, LAMBDA r : r.id \notin ids)
      changingRules       == SelectSeq(stored, LAMBDA r : r.id \in ids)
      targetTypeUnchanged == OfType(unchangedRules, newType)
      maxPriority         == IF Len(targetTypeUnchanged) > 0
                               THEN MaxPriority(targetTypeUnchanged) ELSE -1
      sortedChanging      == SortByPriority(changingRules)
      updatedChangingRules ==
        [i \in 1..Len(sortedChanging) |->
           [sortedChanging[i] EXCEPT !.type = newType, !.priority = maxPriority + 1 + (i - 1)]]
      allRules   == unchangedRules \o updatedChangingRules
      exactRules == Reindex(SortByPriority(OfType(allRules, "exact")))
      regexRules == Reindex(SortByPriority(OfType(allRules, "regex")))
  IN  exactRules \o regexRules

\* ImportResult
ImportResult(success, hasConflicts, conflictingRules, importedCount) ==
  [success |-> success, hasConflicts |-> hasConflicts,
   conflictingRules |-> conflictingRules, importedCount |-> importedCount]

\* the originals of the rules of an array
Originals(arr) == {arr[i].original : i \in 1..Len(arr)}

\* importRules(jsonContent, existingRules) on a file that parses and holds
\* the rules array file: the loop returns at the first rule without original
\* or placeholder
RECURSIVE importRulesLoop(_, _, _, _, _)
importRulesLoop(file, i, existingRules, conflictingRules, rulesToImport) ==
  IF i > Len(file)
    THEN IF Len(conflictingRules) > 0
           THEN ImportResult(FALSE, TRUE, conflictingRules, Len(rulesToImport))
           ELSE ImportResult(TRUE, FALSE, <<>>, Len(rulesToImport))
  ELSE IF file[i].original = <<>> \/ file[i].placeholder = <<>>
    THEN ImportResult(FALSE, FALSE, <<>>, 0)
  ELSE IF file[i].original \in Originals(existingRules)
    THEN importRulesLoop(file, i + 1, existingRules,
                         Append(conflictingRules, file[i].original), rulesToImport)
    ELSE importRulesLoop(file, i + 1, existingRules,
                         conflictingRules, Append(rulesToImport, file[i]))

importRules(file, existingRules) == importRulesLoop(file, 1, existingRules, <<>>, <<>>)

\* rulesToImport.map((rule, index) => ({...rule, priority:
\*   rules.filter((r) => r.type === rule.type).length + index, ...}))
WithImportPriority(stored, rulesToImport) ==
  [i \in 1..Len(rulesToImport) |->
     [rulesToImport[i] EXCEPT !.priority = Len(OfType(stored, rulesToImport[i].type)) + (i - 1)]]

\* importRulesFromJson(jsonContent): the rules stored afterwards
importRulesFromJson(stored, file) ==
  IF ~importRules(file, stored).success THEN stored
  ELSE AppendNew(stored, WithImportPriority(stored, file))

\* resolutionMap[importedRule.original] || 'skip'
Resolution(resolutionMap, original) ==
  IF original \in DOMAIN resolutionMap THEN resolutionMap[original] ELSE "skip"

\* getRulesToImportWithConflictResolution(jsonContent, existingRules, resolutionMap)
getRulesToImportWithConflictResolution(file, existingRules, resolutionMap) ==
  [rulesToImport  |-> SelectSeq(file, LAMBDA r :
                        /\ Resolution(resolutionMap, r.original) # "override"
                        /\ Resolution(resolutionMap, r.original) # "skip"
                        /\ r.original \notin Originals(existingRules)),
   rulesToOverride |-> SelectSeq(file, LAMBDA r :
                         Resolution(resolutionMap, r.original) = "override")]

\* rulesToOverride.find((r) => r.original === original)
FindOverride(rulesToOverride, original) ==
  SelectSeq(rulesToOverride, LAMBDA r : r.original = original)

\* importRulesWithConflictResolution(jsonContent, resolutionMap): the rules
\* stored afterwards
importRulesWithConflictResolution(stored, file, resolutionMap) ==
  LET picked   == getRulesToImportWithConflictResolution(file, stored, resolutionMap)
      newRules == WithImportPriority(stored, picked.rulesToImport)
      updatedExistingRules ==
        [i \in 1..Len(stored) |->
           LET override == FindOverride(picked.rulesToOverride, stored[i].original)
           IN  IF override # <<>>
                 THEN [stored[i] EXCEPT !.placeholder = override[1].placeholder]
                 ELSE stored[i]]
  IN  AppendNew(updatedExistingRules, newRules)

\* the rules a user enters in the rule form
RuleForms ==
  { Rule(original, <<"X">>, type, TRUE, TRUE, 0) :
      original \in {<<"a">>, <<"b">>}, type \in {"exact", "regex"} }

\* the rule arrays of the files a user imports; the last holds a rule without
\* placeholder
ImportFiles ==
  { <<Rule(<<"a">>, <<"Y">>, "exact", TRUE, TRUE, 0),
      Rule(<<"b">>, <<"Y">>, "regex", TRUE, TRUE, 0)>>,
    <<Rule(<<"b">>, <<"Y">>, "exact", TRUE, TRUE, 5)>>,
    <<Rule(<<"a">>, <<>>, "exact", TRUE, TRUE, 0)>> }

\* an options page over an empty store
InitRules ==
  /\ engText = <<>> /\ engRules = <<>> /\ engOp = "none"
  /\ engOut = NoResult /\ engPrev = NoResult
  /\ NoSurface
  /\ NoMonitor
  /\ NoMainInput
  /\ storedRules = <<>>
  /\ pendingImport = NoPending

\* a step of the options page
OptionsStep ==
  UNCHANGED <<engVars, binderVars, cbListeners, historyVars, monitorVars, mainInputVars>>

AddRule(ruleData) ==
  /\ ~pendingImport.open
  /\ Len(storedRules) < MaxStored
  /\ storedRules' = addRule(storedRules, ruleData)
  /\ UNCHANGED pendingImport
  /\ OptionsStep

DeleteRule(id) ==
  /\ ~pendingImport.open
  /\ id \in Ids(storedRules)
  /\ storedRules' = deleteRule(storedRules, id)
  /\ UNCHANGED pendingImport
  /\ OptionsStep

ToggleRule(id) ==
  /\ ~pendingImport.open
  /\ id \in Ids(storedRules)
  /\ storedRules' = toggleRule(storedRules, id)
  /\ UNCHANGED pendingImport
  /\ OptionsStep

\* the user drags rule draggedItem onto rule targetRuleId
Drop(draggedItem, targetRuleId) ==
  /\ ~pendingImport.open
  /\ {draggedItem, targetRuleId} \subseteq Ids(storedRules)
  /\ storedRules' = handleDrop(storedRules, draggedItem, targetRuleId)
  /\ UNCHANGED pendingImport
  /\ OptionsStep

BulkDeleteRules(ids) ==
  /\ ~pendingImport.open
  /\ ids # {} /\ ids \subseteq Ids(storedRules)
  /\ storedRules' = bulkDeleteRules(storedRules, ids)
  /\ UNCHANGED pendingImport
  /\ OptionsStep

BulkUpdateType(ids, newType) ==
  /\ ~pendingImport.open
  /\ ids # {} /\ ids \subseteq Ids(storedRules)
  /\ storedRules' = bulkUpdateType(storedRules, ids, newType)
  /\ UNCHANGED pendingImport
  /\ OptionsStep

\* handleFileSelect: onImport is importRulesFromJson; a result with conflicts
\* opens the conflict dialog
ImportFile(file) ==
  /\ ~pendingImport.open
  /\ Len(storedRules) + Len(file) <= MaxStored
  /\ LET result == importRules(file, storedRules)
     IN  /\ storedRules' = importRulesFromJson(storedRules, file)
         /\ pendingImport' =
              IF result.hasConflicts
                THEN [open |-> TRUE, file |-> file,
                      conflictingRules |-> result.conflictingRules,
                      importedCount |-> result.importedCount]
                ELSE NoPending
  /\ OptionsStep

\* the resolutions a user can confirm in the dialog: override or skip for
\* each conflicting rule
ResolutionMaps(conflictingRules) ==
  [Elements(conflictingRules) -> {"override", "skip"}]

\* handleConflictResolution('confirm') with the resolutions chosen
ConfirmResolution(resolutionMap) ==
  /\ pendingImport.open
  /\ resolutionMap \in ResolutionMaps(pendingImport.conflictingRules)
  /\ storedRules' = importRulesWithConflictResolution(storedRules, pendingImport.file,
                                                      resolutionMap)
  /\ pendingImport' = NoPending
  /\ OptionsStep

\* handleConflictResolution('cancel')
CancelResolution ==
  /\ pendingImport.open
  /\ pendingImport' = NoPending
  /\ UNCHANGED storedRules
  /\ OptionsStep

RuleIds == 1..MaxStored

AllResolutionMaps ==
  UNION {[S -> {"override", "skip"}] : S \in SUBSET {<<"a">>, <<"b">>}}

NextRules ==
  \/ \E ruleData \in RuleForms : AddRule(ruleData)
  \/ \E id \in RuleIds : DeleteRule(id)
  \/ \E id \in RuleIds : ToggleRule(id)
  \/ \E draggedItem \in RuleIds, targetRuleId \in RuleIds : Drop(draggedItem, targetRuleId)
  \/ \E ids \in SUBSET RuleIds : BulkDeleteRules(ids)
  \/ \E ids \in SUBSET RuleIds, newType \in {"exact", "regex"} : BulkUpdateType(ids, newType)
  \/ \E file \in ImportFiles : ImportFile(file)
  \/ \E resolutionMap \in AllResolutionMaps : ConfirmResolution(resolutionMap)
  \/ CancelResolution

SpecRules == InitRules /\ [][NextRules]_vars

\* ------------------------------------------------------------------------
\* The main input elements and the content script's set-up of them
\* (gemini.ts: setupInputRedaction, observeForNewInputs)
\* ------------------------------------------------------------------------
\* the elements matching SELECTORS.input, in document order
MainInputs == {1, 2, 3}

\* A main input element: is it in the page, has it a contenteditable
\* attribute, is dataset.redactlyInitialized set, and how many times
\* setupContenteditableInterception has put its beforeinput, input, paste and
\* send-click listeners on it.
MainInput(attached, contenteditable, initialized, setups) ==
  [attached |-> attached, contenteditable |-> contenteditable,
   initialized |-> initialized, setups |-> setups]

\* document.querySelector(SELECTORS.input): the first in the page, 0 if none
QueryInput(inputs) ==
  LET present == {e \in MainInputs : inputs[e].attached}
  IN  IF present = {} THEN 0 ELSE CHOOSE e \in present : \A x \in present : e <= x

\* setupContenteditableInterception(element)
setupContenteditableInterception(inputs, e) ==
  [inputs EXCEPT ![e].setups = Min(@ + 1, MaxSetups)]

\* setupInputRedaction once waitForElement has resolved with element e: the
\* inputs and the stage it leaves
setupInputRedaction(inputs, e) ==
  IF inputs[e].contenteditable
    THEN [inputs |-> setupContenteditableInterception(inputs, e), stage |-> "observing"]
    ELSE [inputs |-> inputs, stage |-> "stopped"]

\* the callback of observeForNewInputs on a mutation with added nodes
observeForNewInputs(inputs) ==
  LET input == QueryInput(inputs)
  IN  IF input # 0 /\ ~inputs[input].initialized
        THEN LET marked == [inputs EXCEPT ![input].initialized = TRUE]
             IN  IF marked[input].contenteditable
                   THEN setupContenteditableInterception(marked, input)
                   ELSE marked
        ELSE inputs

\* the page when the content script starts
InitMainInput ==
  /\ engText = <<>> /\ engRules = <<>> /\ engOp = "none"
  /\ engOut = NoResult /\ engPrev = NoResult
  /\ NoSurface
  /\ NoMonitor
  /\ NoStore
  /\ mainInputs \in [MainInputs -> {MainInput(a, c, FALSE, 0) : a, c \in BOOLEAN}]
  /\ scriptStage = "start"

\* a step of the page or of the set-up of its main inputs
MainInputStep ==
  UNCHANGED <<engVars, binderVars, cbListeners, historyVars, monitorVars, optionsVars>>

\* init() calls setupInputRedaction: waitForElement finds an element at
\* once, or starts to wait for one
StartScript ==
  /\ scriptStage = "start"
  /\ LET e == QueryInput(mainInputs)
     IN  IF e # 0
           THEN LET done == setupInputRedaction(mainInputs, e)
                IN  mainInputs' = done.inputs /\ scriptStage' = done.stage
           ELSE mainInputs' = mainInputs /\ scriptStage' = "waiting"
  /\ MainInputStep

\* waitForElement's timeout: setupInputRedaction returns without an observer
WaitTimeout ==
  /\ scriptStage = "waiting"
  /\ scriptStage' = "stopped"
  /\ UNCHANGED mainInputs
  /\ MainInputStep

\* the observer that is connected runs on a mutation with added nodes:
\* waitForElement's observer resolves the wait, observeForNewInputs' looks
\* for an input not yet initialized
NodesAdded(inputs) ==
  IF scriptStage = "waiting" /\ QueryInput(inputs) # 0
    THEN setupInputRedaction(inputs, QueryInput(inputs))
  ELSE IF scriptStage = "observing"
    THEN [inputs |-> observeForNewInputs(inputs), stage |-> scriptStage]
  ELSE [inputs |-> inputs, stage |-> scriptStage]

\* The page inserts main input e.
InsertInput(e) ==
  /\ scriptStage # "start"
  /\ ~mainInputs[e].attached
  /\ LET done == NodesAdded([mainInputs EXCEPT ![e].attached = TRUE])
     IN  mainInputs' = done.inputs /\ scriptStage' = done.stage
  /\ MainInputStep

\* The page removes main input e; no observer acts on removed nodes.
RemoveInput(e) ==
  /\ scriptStage # "start"
  /\ mainInputs[e].attached
  /\ mainInputs' = [mainInputs EXCEPT ![e].attached = FALSE]
  /\ UNCHANGED scriptStage
  /\ MainInputStep

\* The page inserts a node that is no main input.
InsertOther ==
  /\ scriptStage = "observing"
  /\ LET done == NodesAdded(mainInputs)
     IN  mainInputs' = done.inputs /\ scriptStage' = done.stage
  /\ mainInputs' # mainInputs
  /\ MainInputStep

NextMainInput ==
  \/ StartScript
  \/ WaitTimeout
  \/ \E e \in MainInputs : InsertInput(e)
  \/ \E e \in MainInputs : RemoveInput(e)
  \/ InsertOther

SpecMainInput == InitMainInput /\ [][NextMainInput]_vars

\* ------------------------------------------------------------------------
\* The bound surface with the binder's teardown
\* ------------------------------------------------------------------------
\* destroy() of the binder, called between two events
DestroyBinder ==
  /\ pendingInput = "none"
  /\ elementListeners' = destroyListeners(elementListeners)
  /\ lastEvent' = "destroy"
  /\ userEvent' = "none" /\ inputRan' = "none" /\ redactCalls' = 0
  /\ effects' = NoEffects /\ copyOut' = NoCopy
  /\ UNCHANGED <<engVars, rules, isEnabled, tagName, surfaceVars,
                 skipNextInput, skipNextRedaction, pendingInput, cbListeners>>
  /\ UNCHANGED <<monitorVars, optionsVars, mainInputVars>>

\* The browser's input event on a surface with no input listener of the
\* binder: nothing handles it.
InputUnhandled ==
  /\ pendingInput = "genuine"
  /\ "input" \notin elementListeners
  /\ pendingInput' = "none"
  /\ lastEvent' = "input"
  /\ userEvent' = "input" /\ inputRan' = "none" /\ redactCalls' = 0
  /\ effects' = NoEffects /\ copyOut' = NoCopy
  /\ UNCHANGED <<engVars, rules, isEnabled, tagName, surfaceVars,
                 skipNextInput, skipNextRedaction, elementListeners, cbListeners>>
  /\ UNCHANGED <<monitorVars, optionsVars, mainInputVars>>

\* A paste on a surface with no paste listener of the binder: the browser
\* inserts the text over the selection and fires a genuine input event.
PasteUnhandled(pastedText) ==
  /\ pendingInput = "none"
  /\ "paste" \notin elementListeners
  /\ Len(value) - (selEnd - selStart) + Len(pastedText) <= MaxLen
  /\ IF pastedText = <<>> \/ ~hasSelection
       THEN UNCHANGED <<value, selStart, selEnd, pendingInput>>
       ELSE /\ value' = SubSeq(value, 1, selStart) \o pastedText
                          \o SubSeq(value, selEnd + 1, Len(value))
            /\ selStart' = selStart + Len(pastedText)
            /\ selEnd' = selStart + Len(pastedText)
            /\ pendingInput' = "genuine"
  /\ lastEvent' = "paste"
  /\ userEvent' = "paste" /\ inputRan' = "none" /\ redactCalls' = 0
  /\ effects' = NoEffects /\ copyOut' = NoCopy
  /\ UNCHANGED <<engVars, rules, isEnabled, tagName, hasSelection,
                 skipNextInput, skipNextRedaction, elementListeners, cbListeners>>
  /\ UNCHANGED <<monitorVars, optionsVars, mainInputVars>>

NextTeardown ==
  \/ \E c \in TypedChars : UserType(c)
  \/ UserDelete
  \/ "input" \in elementListeners /\ GenuineInput
  \/ InputUnhandled
  \/ SyntheticInput
  \/ \E pastedText \in PastePayloads : "paste" \in elementListeners /\ UserPaste(pastedText)
  \/ \E pastedText \in PastePayloads : PasteUnhandled(pastedText)
  \/ \E from, to \in 0..(2 * MaxLen) : MoveCaret(from, to)
  \/ Blur
  \/ DestroyBinder

SpecTeardown == Init /\ [][NextTeardown]_vars

\* ------------------------------------------------------------------------
\* The page, the EditModeMonitor and the binders it creates
\* ------------------------------------------------------------------------
\* EDIT_MODE_CONFIG of the content script, and the whole-page container
\* with the optional cancel selector left out
MonitorConfigs ==
  { EditModeConfig("[role=article]", "button.save", "button.cancel"),
    EditModeConfig("body", "button.save", Undefined) }

MonitorRuleSets ==
  { WithIds(<<Rule(<<"a">>, <<"X">>, "exact", TRUE, TRUE, 0)>>),
    WithIds(<<Rule(<<"a">>, <<"b">>, "exact", TRUE, TRUE, 0)>>) }

\* what the user leaves in a field by typing, and what they paste
MonitorTexts == { <<"a">> }

MonitorPastes == { <<"a">> }

\* element 1 is a div, element 2 a textarea
TagOf(e) == IF e = 1 THEN "DIV" ELSE "TEXTAREA"

\* The page when the content script starts: a div and a textarea, each in
\* the page or not, matching editFieldSelector or not, inside a message
\* container or not, the div with any contenteditable attribute.
InitMonitor ==
  /\ engText = <<>> /\ engRules = <<>> /\ engOp = "none"
  /\ engOut = NoResult /\ engPrev = NoResult
  /\ NoSurface
  /\ NoStore
  /\ NoMainInput
  /\ constructed = FALSE
  /\ observing = FALSE
  /\ monConfig \in MonitorConfigs
  /\ monRules \in MonitorRuleSets
  \* init() returns before it creates the monitor when the site is disabled
  /\ monEnabled = TRUE
  /\ dom \in [Elems -> {Element(a, m, tag, v, c, b) :
                          a, m, c, b \in BOOLEAN, tag \in {"DIV", "TEXTAREA"},
                          v \in {"absent", "true", "false"}}]
  /\ \A e \in Elems : /\ dom[e].tagName = TagOf(e)
                      /\ dom[e].tagName = "TEXTAREA" => dom[e].contenteditable = "absent"
                      /\ dom[e].buttons => dom[e].attached
  /\ activeHandlers = <<>>
  /\ fieldListeners = [e \in Elems |-> {}]
  /\ clickListeners = {}
  /\ removalObservers = {}
  /\ nextId = 1
  /\ destroyCount = [n \in 1..MaxBinders |-> 0]
  /\ monLast = NoStep

\* the monitor's variables take what a handler left
LeaveMonitor(m) ==
  /\ m.nextId <= MaxBinders + 1
  /\ monRules' = m.rules
  /\ dom' = m.dom
  /\ activeHandlers' = m.activeHandlers
  /\ fieldListeners' = m.fieldListeners
  /\ clickListeners' = m.clickListeners
  /\ removalObservers' = m.removalObservers
  /\ nextId' = m.nextId
  /\ destroyCount' = m.destroyCount
  /\ UNCHANGED <<monConfig, monEnabled>>

NoBinderStep ==
  UNCHANGED <<engVars, binderVars, cbListeners, historyVars, optionsVars, mainInputVars>>

\* new EditModeMonitor(config, rules, isEnabled): setupObserver, then
\* scanExistingEditFields
Construct ==
  /\ ~constructed
  /\ constructed' = TRUE
  /\ observing' = TRUE
  /\ LeaveMonitor(scanExistingEditFields(Monitor, 1))
  /\ monLast' = Step("construct", 0, "none", <<>>)
  /\ NoBinderStep

\* The page inserts element e; the observer's callback gets it in addedNodes.
Insert(e) ==
  /\ constructed
  /\ ~dom[e].attached
  /\ LET m == [Monitor EXCEPT !.dom[e].attached = TRUE]
     IN  LeaveMonitor(IF observing THEN checkForEditFields(m, e) ELSE m)
  /\ monLast' = Step("insert", e, "none", <<>>)
  /\ UNCHANGED <<constructed, observing>>
  /\ NoBinderStep

\* The page removes element e, or with it the container that holds it and
\* its buttons; each removalObserver watching e runs cleanup and disconnects.
Remove(e, withAncestor) ==
  /\ constructed
  /\ dom[e].attached
  /\ withAncestor => dom[e].buttons
  /\ LET m == [Monitor EXCEPT !.dom[e].attached = FALSE,
                              !.dom[e].buttons = IF withAncestor THEN FALSE ELSE @,
                              !.clickListeners =
                                IF withAncestor THEN {l \in @ : l.button # e} ELSE @]
     IN  LeaveMonitor(IF e \in removalObservers
                        THEN [handleEditComplete(m, e) EXCEPT !.removalObservers = @ \ {e}]
                        ELSE m)
  /\ monLast' = Step("remove", e, "none", <<>>)
  /\ UNCHANGED <<constructed, observing>>
  /\ NoBinderStep

\* The page moves element e: it detaches e and attaches it again in one task,
\* so the removal and the insertion are delivered in one batch of records.
\* The monitor's observer was created first and its callback runs first;
\* then each removalObserver that watched e before the move runs cleanup and
\* disconnects.  A removalObserver created by the monitor's callback in this
\* batch gets no record of it.
Move(e) ==
  /\ constructed
  /\ dom[e].attached
  /\ LET m       == IF observing THEN checkForEditFields(Monitor, e) ELSE Monitor
         watched == e \in DOMAIN m.activeHandlers /\ e \notin DOMAIN activeHandlers
     IN  LeaveMonitor(IF e \in removalObservers
                        THEN [handleEditComplete(m, e)
                                EXCEPT !.removalObservers = IF watched THEN @ ELSE @ \ {e}]
                        ELSE m)
  /\ monLast' = Step("move", e, "none", <<>>)
  /\ UNCHANGED <<constructed, observing>>
  /\ NoBinderStep

\* The page sets or removes the contenteditable attribute of the div e in
\* the page; the observer's callback gets the attribute mutation.
SetContentEditable(e, v) ==
  /\ constructed
  /\ dom[e].attached /\ dom[e].tagName = "DIV"
  /\ dom[e].contenteditable # v
  /\ LET m == [Monitor EXCEPT !.dom[e].contenteditable = v]
     IN  LeaveMonitor(IF observing THEN checkForEditFields(m, e) ELSE m)
  /\ monLast' = Step("attribute", e, "none", <<>>)
  /\ UNCHANGED <<constructed, observing>>
  /\ NoBinderStep

\* The page renders the save and cancel buttons next to element e.
RenderButtons(e) ==
  /\ constructed
  /\ dom[e].attached
  /\ ~dom[e].buttons
  /\ LeaveMonitor([Monitor EXCEPT !.dom[e].buttons = TRUE])
  /\ monLast' = Step("buttons", e, "none", <<>>)
  /\ UNCHANGED <<constructed, observing>>
  /\ NoBinderStep

\* The user clicks the save or the cancel button rendered next to element b:
\* the one-shot listeners on it run and are gone.
Click(b, kind) ==
  /\ constructed
  /\ dom[b].buttons
  /\ LET fired == {l \in clickListeners : l.button = b /\ l.kind = kind}
     IN  LeaveMonitor(RunCleanups([Monitor EXCEPT !.clickListeners = @ \ fired],
                                  {l.field : l \in fired}))
  /\ monLast' = Step(kind, b, "none", <<>>)
  /\ UNCHANGED <<constructed, observing>>
  /\ NoBinderStep

\* editModeMonitor.destroy()
Destroy ==
  /\ observing
  /\ observing' = FALSE
  /\ LeaveMonitor(destroy(Monitor))
  /\ monLast' = Step("destroy", 0, "none", <<>>)
  /\ UNCHANGED constructed
  /\ NoBinderStep

\* editModeMonitor.updateRules(newRules)
MonitorUpdateRules(newRules) ==
  /\ constructed
  /\ newRules # monRules
  /\ LeaveMonitor(updateRules(Monitor, newRules))
  /\ monLast' = Step("rules", 0, "none", <<>>)
  /\ UNCHANGED <<constructed, observing>>
  /\ NoBinderStep

Editable(el) == el.attached /\ (el.tagName = "TEXTAREA" \/ el.contenteditable = "true")

\* the surface of element e holding text with the caret at its end, as the
\* binder h sees it when a handler starts
SurfaceOf(h, text) ==
  [value |-> text, selStart |-> Len(text), selEnd |-> Len(text), hasSelection |-> TRUE,
   skipNextInput |-> h.skipNextInput, skipNextRedaction |-> h.skipNextRedaction,
   ran |-> "none", effects |-> NoEffects]

\* the event a handler starts from: nothing done yet
Fresh(s) == [s EXCEPT !.ran = "none", !.effects = NoEffects]

\* the binder of element e takes the guard flags a handler left
WithFlags(m, e, s) ==
  [m EXCEPT !.activeHandlers[e].skipNextInput = s.skipNextInput,
            !.activeHandlers[e].skipNextRedaction = s.skipNextRedaction]

\* The user replaces what element e holds by text; the browser fires an
\* input event, which the listeners on e handle.
FieldInput(e, text) ==
  /\ constructed
  /\ Editable(dom[e])
  /\ IF fieldListeners[e] # {} /\ e \in DOMAIN activeHandlers
       THEN LET h == activeHandlers[e]
                s == SurfaceOf(h, text)
                u == InputChain(dom[e].tagName, h.rules, h.isEnabled, s, MaxCalls)
            IN  /\ LeaveMonitor(WithFlags(Monitor, e, u))
                /\ monLast' = Step("input", e,
                                   handleInput(dom[e].tagName, h.rules, h.isEnabled, s).ran,
                                   u.value)
       ELSE /\ LeaveMonitor(Monitor)
            /\ monLast' = Step("input", e, "none", text)
  /\ UNCHANGED <<constructed, observing>>
  /\ NoBinderStep

\* The user clears element e and pastes pastedText: handlePaste, then the
\* input event the binder dispatched, or the browser's insertion and its
\* input event.
FieldPaste(e, pastedText) ==
  /\ constructed
  /\ Editable(dom[e])
  /\ IF fieldListeners[e] # {} /\ e \in DOMAIN activeHandlers
       THEN LET h == activeHandlers[e]
                tag == dom[e].tagName
                t == handlePaste(tag, h.rules, h.isEnabled, SurfaceOf(h, <<>>), pastedText)
                inserted == [t EXCEPT !.value = pastedText,
                                      !.selStart = Len(pastedText),
                                      !.selEnd = Len(pastedText)]
                u == IF t.effects.dispatched
                       THEN InputChain(tag, h.rules, h.isEnabled, Fresh(t), MaxCalls)
                     ELSE IF t.effects.prevented THEN t
                     ELSE InputChain(tag, h.rules, h.isEnabled, Fresh(inserted), MaxCalls)
            IN  /\ LeaveMonitor(WithFlags(Monitor, e, u))
                /\ monLast' = Step("paste", e, t.ran, u.value)
       ELSE /\ LeaveMonitor(Monitor)
            /\ monLast' = Step("paste", e, "none", pastedText)
  /\ UNCHANGED <<constructed, observing>>
  /\ NoBinderStep

NextMonitor ==
  \/ Construct
  \/ Destroy
  \/ \E e \in Elems : Insert(e)
  \/ \E e \in Elems, withAncestor \in BOOLEAN : Remove(e, withAncestor)
  \/ \E e \in Elems : Move(e)
  \/ \E e \in Elems, v \in {"absent", "true", "false"} : SetContentEditable(e, v)
  \/ \E e \in Elems : RenderButtons(e)
  \/ \E b \in Elems, kind \in {"save", "cancel"} : Click(b, kind)
  \/ \E newRules \in MonitorRuleSets : MonitorUpdateRules(newRules)
  \/ \E e \in Elems, text \in MonitorTexts : FieldInput(e, text)
  \/ \E e \in Elems, pastedText \in MonitorPastes : FieldPaste(e, pastedText)

SpecMonitor == InitMonitor /\ [][NextMonitor]_vars

\* ------------------------------------------------------------------------
\* Properties of the engine (SpecEngine)
\* ------------------------------------------------------------------------
Chars(text) == {text[i] : i \in 1..Len(text)}

Contains(text, sub) ==
  \E pos \in 1..(Len(text) - Len(sub) + 1) : SubSeq(text, pos, pos + Len(sub) - 1) = sub

Indices(arr) == 1..Len(arr)

EnabledIndices(arr) == {i \in Indices(arr) : arr[i].enabled}

\* the rule of the array with the given id (ids are array positions)
RuleOf(arr, id) == arr[id]

AfterRedact == engOp \in {"redact", "redact-redact"}

\* C5 as stated: round trip for every rule set whose replacements are unique
\* and equal to no match text, on every text containing no replacement.
RoundTripPre(text, arr) ==
  /\ \A i, j \in Indices(arr) : i # j => arr[i].placeholder # arr[j].placeholder
  /\ \A i, j \in Indices(arr) : arr[i].placeholder # arr[j].original
  /\ \A i \in Indices(arr) : ~Contains(text, arr[i].placeholder)

DisjointRoundTripPre(text, arr) ==
  LET E == EnabledIndices(arr) IN
  /\ \A i \in E : /\ arr[i].type = "exact"
                  /\ arr[i].caseSensitive
                  /\ arr[i].placeholder # <<>>
                  /\ "$" \notin Chars(arr[i].placeholder) \cup Chars(arr[i].original)
                  /\ Chars(arr[i].placeholder) \cap Chars(text) = {}
  /\ \A i, j \in E : Chars(arr[i].placeholder) \cap Chars(arr[j].original) = {}
  /\ \A i, j \in E : i # j => Chars(arr[i].placeholder) \cap Chars(arr[j].placeholder) = {}

IdempotencePre(arr) ==
  \A i, j \in EnabledIndices(arr) :
    i # j => ~Test(compileRule(arr[j]).regex, arr[i].placeholder)

Fold(rule, c) == IF rule.caseSensitive THEN c ELSE Canonicalize(c)

SeparatingPre(arr) ==
  LET E == EnabledIndices(arr) IN
  /\ \A i \in E : /\ arr[i].type = "exact"
                  /\ arr[i].placeholder # <<>>
                  /\ "$" \notin Chars(arr[i].placeholder)
  /\ \A i, j \in E :
       {Fold(arr[j], c) : c \in Chars(arr[i].placeholder)}
         \cap {Fold(arr[j], c) : c \in Chars(arr[j].original)} = {}

StepRule(k) == RuleOf(engRules, engOut.steps[k].id)

StepIndices == 1..Len(engOut.steps)

\* a literal rule and a pattern rule match the same non-empty span of text
SameSpan(text, literal, pattern) ==
  \E pos \in 1..Len(text) :
    LET e == MatchFrom(compileRule(literal).regex.atoms, 1, text, pos, ~literal.caseSensitive)
    IN  /\ e > pos
        /\ e = MatchFrom(compileRule(pattern).regex.atoms, 1, text, pos, ~pattern.caseSensitive)

LiteralPatternPairs ==
  {lp \in EnabledIndices(engRules) \X EnabledIndices(engRules) :
     /\ engRules[lp[1]].type = "exact"
     /\ engRules[lp[2]].type = "regex"
     /\ SameSpan(engText, engRules[lp[1]], engRules[lp[2]])}

LiteralBeforePattern ==
  \A i, j \in StepIndices :
    (StepRule(i).type = "regex" /\ StepRule(j).type = "exact") => j < i

C8_AscendingPriorityWithinKind ==
  engOp = "redact" =>
    \A i, j \in StepIndices :
      (i < j /\ StepRule(i).type = StepRule(j).type)
        => StepRule(i).priority <= StepRule(j).priority

\* C9: unredact applies every pattern rule before every literal rule and,
\* within one kind, a higher priority value before a lower one.
C9_ReverseOrderOfRedact ==
  engOp = "unredact" =>
    \A i, j \in StepIndices :
      i < j => /\ ~(StepRule(i).type = "exact" /\ StepRule(j).type = "regex")
               /\ StepRule(i).type = StepRule(j).type
                    => StepRule(i).priority >= StepRule(j).priority

\* C10: appliedRules holds exactly the ids of the rules whose application
\* changed the text at the point they ran, in the order the rules ran.
RECURSIVE ChangedIds(_)
ChangedIds(steps) ==
  IF steps = <<>> THEN <<>>
  ELSE (IF Head(steps).before # Head(steps).after THEN <<Head(steps).id>> ELSE <<>>)
       \o ChangedIds(Tail(steps))

C10_AppliedIffChanged ==
  AfterRedact => engOut.appliedRules = ChangedIds(engOut.steps)

C10_Witness ==
  /\ engOp = "redact"
  /\ Len(engOut.steps) = 2
  /\ engOut.steps[1].after = engOut.steps[1].before
  /\ Test(compileRule(StepRule(1)).regex, engOut.steps[1].before)
  /\ engOut.steps[2].after # engOut.steps[2].before
  /\ engOut.appliedRules = <<engOut.steps[2].id>>

\* the array without its disabled rules (the ids stay)
WithoutDisabled(arr) ==
  LET RECURSIVE Keep(_)
      Keep(n) == IF n = 0 THEN <<>>
                 ELSE IF arr[n].enabled THEN Append(Keep(n - 1), arr[n]) ELSE Keep(n - 1)
  IN  Keep(Len(arr))

\* C11: disabled rules have no influence: redact and unredact return what
\* they return on the array without its disabled rules, and no id of a
\* disabled rule is in appliedRules.
C11_DisabledRulesNoInfluence ==
  /\ engOp = "redact" =>
       /\ engOut.text = redact(engText, WithoutDisabled(engRules)).text
       /\ engOut.appliedRules = redact(engText, WithoutDisabled(engRules)).appliedRules
       /\ \A k \in 1..Len(engOut.appliedRules) : engRules[engOut.appliedRules[k]].enabled
  /\ engOp = "unredact" =>
       engOut.text = unredact(engText, WithoutDisabled(engRules))

C11_Witness ==
  /\ engOp = "redact"
  /\ Len(engRules) = 2
  /\ ~engRules[1].enabled /\ engRules[2].enabled
  /\ Test(compileRule(engRules[1]).regex, engText)
  /\ engOut.appliedRules = <<2>>
  /\ engOut.text # engText

\* the text has the literal (case folded unless caseSensitive) at pos
LiteralAt(text, pos, rule) ==
  /\ pos + Len(rule.original) - 1 <= Len(text)
  /\ \A k \in 1..Len(rule.original) :
       IF rule.caseSensitive THEN text[pos + k - 1] = rule.original[k]
       ELSE Canonicalize(text[pos + k - 1]) = Canonicalize(rule.original[k])

InvalidPatternRules ==
  {i \in EnabledIndices(engRules) :
     engRules[i].type = "regex" /\ ParsePattern(engRules[i].original) = Invalid}

\* C12: for a pattern rule whose pattern is no valid regular expression
\* compileRule returns a matcher (it does not throw) that matches exactly
\* the literal occurrences of the match text, folding case iff caseSensitive
\* is false; redact with such a rule returns a result.
C12_InvalidPatternIsLiteral ==
  \A i \in InvalidPatternRules :
    LET regex == compileRule(engRules[i]).regex
    IN  /\ regex.atoms # Invalid
        /\ regex.ignoreCase = ~engRules[i].caseSensitive
        /\ \A pos \in 1..(Len(engText) + 1) :
             MatchFrom(regex.atoms, 1, engText, pos, regex.ignoreCase)
               = IF LiteralAt(engText, pos, engRules[i])
                   THEN pos + Len(engRules[i].original) ELSE 0
        /\ (engOp = "redact" /\ Len(engRules) = 1 /\ engText # <<>>)
             => engOut.text = Replace(engText, RegExp(escapeRegExp(engRules[i].original),
                                                      engRules[i].caseSensitive),
                                      engRules[i].placeholder)

C12_Witness ==
  /\ engOp = "redact"
  /\ InvalidPatternRules = {1}
  /\ Len(engRules) = 1
  /\ engText = <<"(", "A">>
  /\ engOut.text = <<"X">>
  /\ engOut.appliedRules = <<1>>

\* every occurrence of sub in text, leftmost first, replaced by the
\* characters of by
RECURSIVE VerbatimReplaceAll(_, _, _, _)
VerbatimReplaceAll(text, sub, by, pos) ==
  IF pos > Len(text) THEN <<>>
  ELSE IF pos + Len(sub) - 1 <= Len(text) /\ SubSeq(text, pos, pos + Len(sub) - 1) = sub
    THEN by \o VerbatimReplaceAll(text, sub, by, pos + Len(sub))
  ELSE <<text[pos]>> \o VerbatimReplaceAll(text, sub, by, pos + 1)

\* C13: for each enabled rule in turn, unredact replaces every literal
\* occurrence of the rule's (non-empty) replacement by the rule's match
\* text, character for character.
C13_UnredactVerbatim ==
  engOp = "unredact" =>
    \A k \in StepIndices :
      StepRule(k).placeholder # <<>> =>
        engOut.steps[k].after
          = VerbatimReplaceAll(engOut.steps[k].before, StepRule(k).placeholder,
                               StepRule(k).original, 1)

\* ------------------------------------------------------------------------
\* Properties of the binder and the copy interceptor (Spec)
\* ------------------------------------------------------------------------
BinderOn == isEnabled /\ Len(rules) > 0

\* C1: after a redacted paste the guard suppresses the paste handler's own
\* notification only; the next genuine input event is processed by redact.
C1_GenuineInputReachesRedact ==
  (lastEvent = "input" /\ BinderOn) => inputRan = "redact"

\* C2: redact runs exactly once for one genuine user input event; the
\* binder's own notification does not run it again.
C2_RedactOncePerInput ==
  /\ userEvent = "input" => redactCalls <= 1
  /\ (lastEvent = "synthetic" /\ userEvent = "input") => inputRan # "redact"

\* The handling of the pending synthetic notification leaves the surface and
\* the guard exactly as they are and dispatches the next notification:
\* dispatchEvent is synchronous and handleInput a function of this state, so
\* every later notification of the chain does the same.
ChainRepeats ==
  /\ pendingInput = "synthetic"
  /\ LET s == handleInput(tagName, rules, isEnabled, Surface)
     IN  /\ s.effects.dispatched
         /\ <<s.value, s.selStart, s.selEnd, s.hasSelection,
              s.skipNextInput, s.skipNextRedaction>>
            = <<value, selStart, selEnd, hasSelection, skipNextInput, skipNextRedaction>>

\* C3: the handling of one genuine user input event terminates: the chain of
\* rewrites and synthetic notifications it starts never comes to a
\* notification whose handling reproduces the state it was dispatched in.
C3_InputHandlingTerminates == userEvent = "input" => ~ChainRepeats

\* C4: with the enabled flag off or an empty rule snapshot, no input or paste
\* handler writes the surface or its caret, prevents a default paste or
\* dispatches a notification; a copy listener with an empty rule snapshot
\* neither prevents the copy nor writes clipboard data.
C4_OffIsPassThrough ==
  /\ (lastEvent \in {"input", "synthetic", "paste"} /\ ~BinderOn)
       => /\ effects = NoEffects
          /\ pendingInput # "synthetic"
  /\ (lastEvent = "copy" /\ \A i \in 1..Len(cbListeners) : cbListeners[i].rules = <<>>)
       => copyOut = NoCopy

C4_Witness ==
  /\ lastEvent = "input"
  /\ ~isEnabled
  /\ Len(rules) > 0
  /\ Len(redact(value, rules).appliedRules) > 0
  /\ inputRan = "off"
  /\ effects = NoEffects

\* the guard of the binder is idle
GuardIdle == ~skipNextInput /\ ~skipNextRedaction

Clamp(x, lo, hi) == IF x < lo THEN lo ELSE IF x > hi THEN hi ELSE x

C15_FlatPasteRewrite ==
  [][\A pastedText \in PastePayloads \ {<<>>} :
       (UserPaste(pastedText) /\ tagName = "TEXTAREA" /\ BinderOn) =>
         LET result == redact(pastedText, rules)
         IN  IF Len(result.appliedRules) > 0
               THEN /\ effects'.prevented
                    /\ value' = SubSeq(value, 1, selStart) \o result.text
                                 \o SubSeq(value, selEnd + 1, Len(value))
                    /\ selStart' = selStart + Len(result.text)
                    /\ selEnd' = selStart'
               ELSE /\ effects' = NoEffects
                    /\ skipNextInput' = skipNextInput
                    /\ skipNextRedaction' = skipNextRedaction
                    /\ pendingInput' = "genuine"]_vars

C15_Witness ==
  /\ lastEvent = "paste" /\ tagName = "TEXTAREA"
  /\ effects.prevented /\ effects.wrote
  /\ value = <<"b", "X", "b">>
  /\ selStart = 2 /\ selEnd = 2

\* C16: a paste into a bound contenteditable surface with no selection
\* range is nothing to do, whatever the payload: the default paste is not
\* prevented, the surface is not written and the guard stays unset.
C16_PasteWithoutSelection ==
  [][\A pastedText \in PastePayloads :
       (UserPaste(pastedText) /\ tagName = "DIV" /\ ~hasSelection /\ GuardIdle) =>
         /\ ~effects'.prevented
         /\ ~effects'.wrote
         /\ value' = value
         /\ GuardIdle']_vars

\* ------------------------------------------------------------------------
\* Properties of the monitor (SpecMonitor)
\* ------------------------------------------------------------------------
Bound(e) == e \in DOMAIN activeHandlers

\* the steps in which the observer's callback may activate element e
Activates(e) == Insert(e) \/ \E v \in {"absent", "true", "false"} : SetContentEditable(e, v)

\* C17: whatever the construction scan, insertions, contenteditable changes,
\* save and cancel clicks and removals were, every element has at most one
\* binder's pair of input/paste listeners on it, that of its binder in the
\* active set, and none when it is not in the set; and a step that would
\* activate an element already in the set creates no binder and adds no
\* listener.
C17_OneBinderPerElement ==
  /\ [](\A e \in Elems :
          /\ Cardinality(fieldListeners[e]) <= 1
          /\ Bound(e) => fieldListeners[e] = {activeHandlers[e].id}
          /\ ~Bound(e) => fieldListeners[e] = {})
  /\ [][\A e \in Elems :
          (Bound(e) /\ Activates(e)) =>
            /\ activeHandlers' = activeHandlers
            /\ fieldListeners' = fieldListeners
            /\ nextId' = nextId]_vars

\* a contenteditable change of a bound element that is an edit field after
\* it: the callback called handleEditFieldActivated on it
C17_Witness ==
  /\ monLast.op = "attribute" /\ monLast.bound
  /\ isEditField(monConfig, dom[monLast.field])
  /\ Bound(monLast.field)
  /\ fieldListeners[monLast.field] = {activeHandlers[monLast.field].id}

\* the element matches the editable-surface description, is a genuine
\* editable surface (contenteditable on, or a textarea) and lies inside a
\* message container, a test skipped for the container 'body'
Qualifies(cfg, el) ==
  /\ el.matches
  /\ el.contenteditable = "true" \/ el.tagName = "TEXTAREA"
  /\ cfg.messageSelector = "body" \/ el.inMessage

\* C18 (only): an element that a step binds qualifies after the step.
BindsOnlyQualifying ==
  \A e \in Elems :
    (~Bound(e) /\ e \in DOMAIN activeHandlers') => Qualifies(monConfig, dom'[e])

\* C18 (scan): the construction scan binds every element of the page that
\* qualifies.
ScanBindsQualifying ==
  Construct =>
    \A e \in Elems :
      (dom[e].attached /\ Qualifies(monConfig, dom[e])) => e \in DOMAIN activeHandlers'

\* C18: a step of the monitor (construction scan, insertion, change of the
\* contenteditable attribute) binds an element only if the element then
\* matches the editable-surface description, has its editable
\* characteristic on or is a textarea, and lies inside a message container
\* unless the container is 'body'; and the construction scan binds every
\* element of the page that satisfies the three.
C18_ActivatesOnlyQualifying ==
  [][BindsOnlyQualifying /\ ScanBindsQualifying]_vars

\* the configuration names a selector for the save (cancel) trigger
Configured(kind) ==
  IF kind = "save" THEN monConfig.saveButtonSelector # Undefined
                   ELSE monConfig.cancelButtonSelector # Undefined

\* the buttons rendered next to element b lie in the message container of
\* element e: its own container, or the page when the container is 'body'
InContainerOf(b, e) == monConfig.messageSelector = "body" \/ b = e

\* the binders created so far
Created == 1..(nextId - 1)

Active == {activeHandlers[e].id : e \in DOMAIN activeHandlers}

\* C19 (triggers): a click on the configured save or cancel trigger in the
\* message container of a bound element, and the removal of a bound element
\* alone or with its container, leave the element without a binder.
TriggersTearDown ==
  \A e \in Elems :
    /\ \A b \in Elems, kind \in {"save", "cancel"} :
         (Bound(e) /\ Configured(kind) /\ InContainerOf(b, e) /\ Click(b, kind))
           => e \notin DOMAIN activeHandlers'
    /\ \A withAncestor \in BOOLEAN :
         (Bound(e) /\ Remove(e, withAncestor)) => e \notin DOMAIN activeHandlers'

\* C19 (sessions): a binder is destroyed when and only when its element
\* leaves the active set, and an element entering the set gets the binder
\* created in that step.
SessionSteps ==
  \A e \in Elems :
    /\ (Bound(e) /\ e \notin DOMAIN activeHandlers')
         => /\ destroyCount[activeHandlers[e].id] = 0
            /\ destroyCount'[activeHandlers[e].id] = 1
    /\ (Bound(e) /\ e \in DOMAIN activeHandlers')
         => /\ activeHandlers'[e].id = activeHandlers[e].id
            /\ destroyCount'[activeHandlers[e].id] = 0
    /\ (~Bound(e) /\ e \in DOMAIN activeHandlers')
         => activeHandlers'[e].id \in nextId..(nextId' - 1)

\* C19: every completion trigger of a bound element tears its binder down;
\* each binder created is either active and never destroyed, or discarded
\* and destroyed exactly once; an element goes from unbound to bound to
\* unbound, and is bound again only with a binder created then.
C19_TeardownOncePerSession ==
  /\ [](\A n \in Created : IF n \in Active THEN destroyCount[n] = 0
                                            ELSE destroyCount[n] = 1)
  /\ [][TriggersTearDown /\ SessionSteps]_vars

\* the guard flags of the binders, by element
GuardFlags ==
  [e \in DOMAIN activeHandlers |->
     <<activeHandlers[e].skipNextInput, activeHandlers[e].skipNextRedaction>>]

\* C20 (broadcast): updateRules(R) leaves R in the monitor and in every
\* active binder and changes nothing else: not the page, the active set,
\* the identity and guard flags of the binders, or any listener.
UpdateIsBroadcastOnly ==
  \A newRules \in MonitorRuleSets :
    MonitorUpdateRules(newRules) =>
      /\ monRules' = newRules
      /\ DOMAIN activeHandlers' = DOMAIN activeHandlers
      /\ \A e \in DOMAIN activeHandlers :
           activeHandlers' [e] = [activeHandlers[e] EXCEPT !.rules = newRules]
      /\ GuardFlags' = GuardFlags
      /\ UNCHANGED <<dom, fieldListeners, clickListeners, removalObservers,
                     nextId, destroyCount, binderVars>>

\* C20 (next input): an input event on a bound element right after an
\* update is redacted with the rules of that update.
NextInputUsesRules ==
  \A e \in Elems, text \in MonitorTexts :
    (monLast.op = "rules" /\ Bound(e) /\ FieldInput(e, text)) =>
      /\ monLast'.ran = "redact"
      /\ monLast'.out = redact(text, monRules).text

\* C20: after updateRules(R) every active binder holds R, a binder activated
\* later is created with R, the update changes nothing but the rule
\* snapshots, and the next input event on each binder is redacted with R.
C20_UpdateRulesBroadcast ==
  /\ [](\A e \in DOMAIN activeHandlers : activeHandlers[e].rules = monRules)
  /\ [][UpdateIsBroadcastOnly /\ NextInputUsesRules]_vars

\* the monitor has been destroyed
Destroyed == constructed /\ ~observing

\* C21 (destroy): destroy() destroys every binder that was active.
DestroyDestroysActive == Destroy => \A n \in Active : destroyCount'[n] = 1

\* C21 (after): no step after destroy() changes the binders.
NothingAfterDestroy ==
  Destroyed => UNCHANGED <<activeHandlers, fieldListeners, destroyCount, nextId>>

\* C21: destroy() empties the active set and destroys every binder that was
\* active; from then on no binder is active and no listener of a binder is
\* on an element, whatever the page inserts or changes, and a save or
\* cancel click or a removal changes nothing of the binders.
C21_DestroyIsFinal ==
  /\ [](Destroyed => /\ activeHandlers = <<>>
                      /\ \A e \in Elems : fieldListeners[e] = {})
  /\ [][DestroyDestroysActive /\ NothingAfterDestroy]_vars

\* after destroy() the page has inserted an element that passes isEditField,
\* where the monitor had destroyed a binder
C21_Witness ==
  /\ Destroyed
  /\ monLast.op = "insert"
  /\ isEditField(monConfig, dom[monLast.field])
  /\ destroyCount[1] = 1
  /\ activeHandlers = <<>>

\* ------------------------------------------------------------------------
\* Properties of the binder's teardown (SpecTeardown)
\* ------------------------------------------------------------------------
\* C22 (destroy): destroy() leaves no listener of the binder, so that a
\* second call finds nothing to remove, and touches nothing else.
DestroyRemovesListeners ==
  DestroyBinder =>
    /\ elementListeners' = {}
    /\ destroyListeners(elementListeners') = elementListeners'
    /\ UNCHANGED <<rules, isEnabled, tagName, surfaceVars, skipNextInput,
                   skipNextRedaction, pendingInput, cbListeners>>

\* C22 (after): without listeners no step changes the binder's flags or
\* brings a listener back.
NothingHandledAfterDestroy ==
  elementListeners = {} =>
    UNCHANGED <<elementListeners, skipNextInput, skipNextRedaction>>

\* C22: destroy() takes both listeners of the binder off the surface and
\* changes nothing else; called again it changes nothing at all; and once
\* it was called no input or paste event is handled by the binder: no
\* handler runs, the surface is not rewritten, no paste is suppressed, no
\* input event is dispatched and no guard flag changes.
C22_DestroyIdempotent ==
  /\ [](elementListeners = {} =>
          /\ inputRan = "none" /\ redactCalls = 0
          /\ effects = NoEffects
          /\ pendingInput # "synthetic")
  /\ [][DestroyRemovesListeners /\ NothingHandledAfterDestroy]_vars

\* after destroy() a genuine input event went by on a surface that holds a
\* text the binder's rule matches, with the feature on
C22_Witness ==
  /\ elementListeners = {}
  /\ lastEvent = "input"
  /\ isEnabled
  /\ Len(rules) = 1 /\ rules[1].original = <<"a">>
  /\ "a" \in Chars(value)

\* ------------------------------------------------------------------------
\* Properties of the copy interceptor (SpecClipboard)
\* ------------------------------------------------------------------------
\* selection.toString() of a copy event
SelectedText(e) == IF e.hasRange THEN Concat(e.nodes) ELSE <<>>

\* the event's target is inside the configured container, or none is configured
InScope(e) == cbListeners[1].containerSelector = "" \/ e.inContainer

\* the selection is not empty and unredact changes it
Restorable(e) ==
  /\ SelectedText(e) # <<>>
  /\ unredact(SelectedText(e), rules) # SelectedText(e)

\* the listener suppressed the default copy and set text/plain to text
Overridden(out, text) == out.prevented /\ out.plainSet /\ out.plain = text

\* C23: a copy event is intercepted (default copy suppressed, text/plain set
\* to unredact(selection)) if and only if its target is in scope, the
\* selection is non-empty and unredact changes it; otherwise nothing is
\* suppressed and no payload is written.
C23_InterceptIffRestorable ==
  [][\A e \in ClipboardEvents :
       Copy(e) =>
         IF InScope(e) /\ Restorable(e)
           THEN Overridden(copyOut', unredact(SelectedText(e), rules))
           ELSE copyOut' = NoCopy]_vars

\* C23 (amended): the same, with "and the event carries clipboard data"
\* among the conditions.
C23_InterceptIffRestorableWithData ==
  [][\A e \in ClipboardEvents :
       Copy(e) =>
         IF InScope(e) /\ Restorable(e) /\ e.hasClipboardData
           THEN Overridden(copyOut', unredact(SelectedText(e), rules))
           ELSE copyOut' = NoCopy]_vars

\* a copy was intercepted by a listener without a container
C23_Witness ==
  /\ lastEvent = "copy"
  /\ cbListeners[1].containerSelector = ""
  /\ Overridden(copyOut, <<"a">>)

\* the listener intercepts the copy event e
Intercepted(e) == InScope(e) /\ Restorable(e) /\ e.hasClipboardData

\* C24: when building or writing the HTML payload fails during an intercepted
\* copy, the listener still returns, the default copy stays suppressed and
\* text/plain is the restored text.
C24_HtmlFailureKeepsPlainText ==
  [][\A e \in ClipboardEvents :
       Copy(e) /\ Intercepted(e) /\ e.htmlThrows =>
         /\ Overridden(copyOut', unredact(SelectedText(e), rules))
         /\ ~copyOut'.htmlSet]_vars

\* an intercepted copy whose HTML payload failed
C24_Witness ==
  /\ lastEvent = "copy"
  /\ copyOut.prevented /\ copyOut.plainSet /\ copyOut.plain # <<>>
  /\ ~copyOut.htmlSet

\* an update keeps the container scope of the registered listener
UpdateKeepsScope ==
  \A newRules \in ClipboardRuleSets :
    OnRulesChanged(newRules) =>
      /\ cbListeners'[1].containerSelector = cbListeners[1].containerSelector
      /\ cbListeners'[1].rules = newRules

\* a copy event is processed by one listener holding the current rules
CopyUsesCurrentRulesOnly ==
  \A e \in ClipboardEvents :
    Copy(e) =>
      copyOut' = clipboardListener([rules |-> rules,
                                    containerSelector |-> cbListeners[1].containerSelector],
                                   NoCopy, e.inContainer, e.hasRange, e.nodes,
                                   e.hasClipboardData, e.htmlThrows)

\* C25: after setupClipboard and any number of updateClipboardRules calls
\* exactly one copy listener is registered, it keeps the container scope
\* given to setupClipboard, and a copy event after updateClipboardRules(R) is
\* processed with R only.
C25_OneListenerWithLatestRules ==
  /\ [](Len(cbListeners) = 1 /\ cbListeners[1].rules = rules)
  /\ [][UpdateKeepsScope /\ CopyUsesCurrentRulesOnly]_vars

\* updateClipboardRules has replaced the listener of a script that was set up
\* without a container
C25_Witness ==
  /\ lastEvent = "rules"
  /\ Len(cbListeners) = 1
  /\ cbListeners[1].containerSelector = ""
  /\ cbListeners[1].rules # <<>>

\* ------------------------------------------------------------------------
\* The surface text after the binder's handlers (Spec)
\* ------------------------------------------------------------------------
\* redact reports no applied rule on text
FixedPoint(text) == redact(text, rules).appliedRules = <<>>

\* redact is idempotent on text
IdempotentAt(text) == FixedPoint(redact(text, rules).text)

\* the binder has finished handling a genuine input event
InputLeavesFixedPoint ==
  (isEnabled /\ userEvent = "input" /\ pendingInput = "none" /\ IdempotentAt(value))
    => FixedPoint(value)

\* the paste handler has rewritten a paste into a surface whose text was a
\* fixed point
PasteLeavesFixedPoint ==
  \A pastedText \in PastePayloads :
    (/\ UserPaste(pastedText)
     /\ isEnabled /\ FixedPoint(value)
     /\ pendingInput' = "synthetic"
     /\ IdempotentAt(value'))
      => FixedPoint(value')

\* C27: with the feature on and rules on which redact is idempotent, the
\* surface text is a fixed point of redact once the binder has finished
\* handling a genuine input event or a paste event.
C27_SurfaceIsFixedPoint ==
  /\ []InputLeavesFixedPoint
  /\ [][PasteLeavesFixedPoint]_vars

\* ------------------------------------------------------------------------
\* Surfaces left without a binder (SpecMonitor)
\* ------------------------------------------------------------------------
\* every qualifying editable surface in the page has an active binder
AllQualifyingBound ==
  \A e \in Elems :
    (dom[e].attached /\ Qualifies(monConfig, dom[e])) => Bound(e)

\* a step of the page other than a click on a save or cancel trigger, with
\* the monitor observing before and after it
ObservedPageStep ==
  /\ observing /\ observing'
  /\ monLast'.op \in {"insert", "remove", "move", "attribute", "buttons"}

\* the construction scan binds every qualifying surface of the page
ScanBindsAll == Construct => AllQualifyingBound'

PageStepKeepsBound == (ObservedPageStep /\ AllQualifyingBound) => AllQualifyingBound'

\* C28: once the monitor and its removal watchers have processed the
\* records of a page step, every qualifying editable surface attached to the
\* page has an active binder, if that was so before the step and the step was
\* not a click on a save or cancel trigger; the construction scan makes it so.
\* A move of a bound surface within one batch of records is such a step.
C28_AttachedSurfacesStayBound ==
  [][ScanBindsAll /\ PageStepKeepsBound]_vars

\* ------------------------------------------------------------------------
\* Properties of the rule store (SpecRules)
\* ------------------------------------------------------------------------
\* C26: after any sequence of rule-store operations from an empty store, no
\* two stored rules of the same kind have the same priority.
C26_PriorityUniqueWithinKind ==
  \A i, j \in 1..Len(storedRules) :
    (i # j /\ storedRules[i].type = storedRules[j].type)
      => storedRules[i].priority # storedRules[j].priority

\* the rules of the pending file whose original no stored rule has
NonConflicting ==
  SelectSeq(pendingImport.file, LAMBDA r : r.original \notin Originals(storedRules))

\* the stored rule i after the step is the stored rule i before it
KeptUnchanged(i) == storedRules'[i] = storedRules[i]

\* C30 (added): confirming the resolutions of an import with conflicting and
\* non-conflicting rules adds every non-conflicting rule of the file, as many
\* as importedCount reported.
ConfirmAddsNonConflicting ==
  \A resolutionMap \in AllResolutionMaps :
    (ConfirmResolution(resolutionMap) /\ NonConflicting # <<>>)
      => /\ Len(storedRules') - Len(storedRules) = pendingImport.importedCount
         /\ pendingImport.importedCount = Len(NonConflicting)
         /\ \A k \in 1..Len(NonConflicting) :
              \E i \in (Len(storedRules) + 1)..Len(storedRules') :
                /\ storedRules'[i].original = NonConflicting[k].original
                /\ storedRules'[i].placeholder = NonConflicting[k].placeholder

\* C30 (resolved): a stored rule resolved as skip is left unchanged, one
\* resolved as override gets the imported placeholder.
ConfirmAppliesResolutions ==
  \A resolutionMap \in AllResolutionMaps :
    ConfirmResolution(resolutionMap)
      => \A i \in 1..Len(storedRules) :
           /\ Resolution(resolutionMap, storedRules[i].original) = "skip" => KeptUnchanged(i)
           /\ Resolution(resolutionMap, storedRules[i].original) = "override"
                => \E k \in 1..Len(pendingImport.file) :
                     /\ pendingImport.file[k].original = storedRules[i].original
                     /\ storedRules'[i]
                          = [storedRules[i] EXCEPT !.placeholder = pendingImport.file[k].placeholder]

\* C30: when the user confirms a resolution for each conflicting rule of an
\* import that also holds non-conflicting rules, the non-conflicting rules
\* are all added (importedCount of them), skipped rules stay as they are and
\* overridden rules get the imported placeholder.
C30_ResolvedImportAddsTheRest ==
  [][ConfirmAddsNonConflicting /\ ConfirmAppliesResolutions]_vars

\* ------------------------------------------------------------------------
\* Properties of the main inputs' set-up (SpecMainInput)
\* ------------------------------------------------------------------------
\* C29: over any sequence of page mutations every main input element gets
\* the interception listeners at most once: neither the element found by the
\* initial wait nor one set up by the new-input observer is set up again.
C29_MainInputSetUpOnce ==
  scriptStage # "none" => \A e \in MainInputs : mainInputs[e].setups <= 1

====
